---- MODULE Spec2Model ----
(***************************************************************************)
(* Model of the landmark-prediction learning pipeline of                   *)
(* image_registration/CNN/CNN.py:                                          *)
(*   - training_data_preprocessing (dataset build: clean, split, bin,      *)
(*     augment, persist), specification BuildSpec;                         *)
(*   - WindowCallback (the training monitor and its checkpoint policy)     *)
(*     driven by the epochs of model.fit, specification TrainSpec.         *)
(***************************************************************************)
EXTENDS Integers, Sequences, FiniteSets, TLC

\* ------------------------------------------------------------------------
\* Bounds of the model
\* ------------------------------------------------------------------------
MaxN == 3          \* rows of the caller's landmark table
MaxAug == 2        \* n_data_augmentation ranges over 0..MaxAug
ImgSize == 8       \* img.shape[0] and img.shape[1] of every original image
MaxEpochs == 5     \* nb_epochs ranges over 0..MaxEpochs
MaxLoss == 3       \* validation losses range over 1..MaxLoss
MaxSaveFreq == 3   \* save_freq ranges over 1..MaxSaveFreq and the default
MaxCoord == 5      \* coordinates passed to landmarks_downsample: 0..MaxCoord
MaxFactor == 3     \* binning passed to landmarks_downsample: 1..MaxFactor
MaxPixel == 1      \* samples of the images passed to the transforms
MaxImages == 2     \* images passed to predict_landmarks: 0..MaxImages
MaxFolder == 2     \* rows of the tables the launchers read: 0..MaxFolder
MaxLayers == 3     \* layers of a loaded model passed to fine_tune_CNN
MaxFtEpochs == 2   \* nb_epochs of fine_tune_CNN ranges over 0..MaxFtEpochs
MaxRuns == 2       \* calls of train_CNN that follow one fine_tune_CNN
MaxPts == 2        \* points clicked for one contour
MaxListing == 1    \* files a data folder of the project holds

\* test_size is the rational TestSizeNum / FracDen; the numerators below are
\* 0, 0.2 (the value the GUI passes), 0.5 and 1.
FracDen == 20
TestSizes == {0, 4, 10, 20}

\* the (angle, zoom*1000) pairs an augmentation can draw (a subset of
\* randint(0, 360) x randint(700, 1300))
AugDraws == {<<90, 700>>, <<180, 1300>>}

\* the binning factors a caller passes (0: no binning)
Binnings == {0, 2}

\* df_model["name"].unique()
Landmarks == {"L1", "L2"}

\* ------------------------------------------------------------------------
\* Values
\* ------------------------------------------------------------------------
\* a missing landmark (np.nan) in a landmark cell
NaN == <<>>

\* file names: an original image is named by its base; the k-th augmented
\* copy of it is f"{k}_{file_name}"
FileName(b) == [prefix |-> <<>>, base |-> b]

\* variant: every augmented copy carries the index 0
AugFileNameZero(k, fname) == [prefix |-> <<0>> \o fname.prefix, base |-> fname.base]

AugFileName(k, fname) == [prefix |-> <<k>> \o fname.prefix, base |-> fname.base]

\* a file left in an output folder by a previous build
OldFile == [prefix |-> <<>>, base |-> 0]

\* the annotated position of landmark l on original image b
OrigCoord(b, l) == IF l = "L1" THEN <<b, 2 * b + 1>> ELSE <<ImgSize - b, ImgSize - 1>>

\* int(a / b) for b > 0: truncation toward zero
TruncDiv(a, b) == IF a >= 0 THEN a \div b ELSE -((-a) \div b)

\* floor(a / b) for b > 0
FloorDiv(a, b) == a \div b

\* round(num / den) for den > 0.  An exact tie is resolved by the binary
\* floating-point error of the products that were summed, so both
\* neighbours are possible results.
RoundSet(num, den) ==
    LET fl == FloorDiv(num, den)
        r == num - fl * den
    IN  IF 2 * r < den THEN {fl}
        ELSE IF 2 * r > den THEN {fl + 1}
        ELSE {fl, fl + 1}

\* Python's round(num / den): ties go to the even neighbour
RoundHalfEven(num, den) ==
    LET fl == FloorDiv(num, den)
        r == num - fl * den
    IN  IF 2 * r < den THEN fl
        ELSE IF 2 * r > den THEN fl + 1
        ELSE IF fl % 2 = 0 THEN fl ELSE fl + 1

Cos(angle) == CASE angle = 0 -> 1 [] angle = 90 -> 0 [] angle = 180 -> -1
                [] angle = 270 -> 0 [] angle = 360 -> 1
Sin(angle) == CASE angle = 0 -> 0 [] angle = 90 -> 1 [] angle = 180 -> 0
                [] angle = 270 -> -1 [] angle = 360 -> 0

\* ------------------------------------------------------------------------
\* Landmark tables (pandas dataframes): sequences of rows, the row at
\* position i carrying index label i - 1 after reset_index
\* ------------------------------------------------------------------------
Complete(row) == \A l \in Landmarks : row.lmk[l] # NaN

\* variant: no row is dropped
DropnaKeepsAll(df) == df

\* df.dropna().reset_index(drop=True)
Dropna(df) == SelectSeq(df, Complete)

\* df["file name"].unique(): first occurrences, in order
RECURSIVE UniqueFiles(_)
UniqueFiles(df) ==
    IF df = <<>> THEN <<>>
    ELSE LET front == UniqueFiles(SubSeq(df, 1, Len(df) - 1))
             f == df[Len(df)].file
         IN  IF \E i \in 1..Len(front) : front[i] = f THEN front
             ELSE Append(front, f)

FileSet(df) == {df[i].file : i \in 1..Len(df)}

\* df.loc[df["file name"] == fname, lmk].values[0] for every lmk
FirstRow(df, fname) ==
    df[CHOOSE i \in 1..Len(df) :
           /\ df[i].file = fname
           /\ \A j \in 1..(i - 1) : df[j].file # fname]

\* df.loc[df["file name"] == fname, lmk] = cells[lmk] for every lmk
SetCells(df, fname, cells) ==
    [i \in 1..Len(df) |->
        IF df[i].file = fname THEN [df[i] EXCEPT !.lmk = cells] ELSE df[i]]

\* variant: the product is rounded to the nearest integer instead of truncated
ValCountRounded(num, n) == (2 * num * n + FracDen) \div (2 * FracDen)

\* int(test_size * len(df_landmarks_copy))
ValCount(num, n) == TruncDiv(num * n, FracDen)

\* the index labels of a table after sample(..., ignore_index=True)
IndexLabels(df) == 0..(Len(df) - 1)

\* df.drop(labels).reset_index(drop=True): the rows whose index label is
\* not in labels
RECURSIVE DropLabels(_, _)
DropLabels(df, labels) ==
    IF df = <<>> THEN <<>>
    ELSE LET front == DropLabels(SubSeq(df, 1, Len(df) - 1), labels)
         IN  IF (Len(df) - 1) \in labels THEN front
             ELSE Append(front, df[Len(df)])

\* the possible results of df.sample(n): n rows drawn without replacement,
\* in any order
Samples(df, n) ==
    {[j \in 1..n |-> df[s[j]]] :
        s \in {t \in [1..n -> 1..Len(df)] :
                  \A a, b \in 1..n : a # b => t[a] # t[b]}}

\* shape of an image after image_downsample (unchanged when binning is 0)
BinnedShape(b) ==
    IF b = 0 THEN [h |-> ImgSize, w |-> ImgSize]
    ELSE [h |-> TruncDiv(ImgSize, b), w |-> TruncDiv(ImgSize, b)]

\* variant: the quotient is rounded to the nearest integer
BinPointRounded(p, b) == <<(2 * p[1] + b) \div (2 * b), (2 * p[2] + b) \div (2 * b)>>

\* landmarks_downsample: x = int(x / binning), y = int(y / binning)
BinPoint(p, b) == <<TruncDiv(p[1], b), TruncDiv(p[2], b)>>

landmarks_downsample(fname, df, b) ==
    LET src == FirstRow(df, fname).lmk
    IN  SetCells(df, fname, [l \in Landmarks |-> BinPoint(src[l], b)])

\* duplicate_landmarks: a new row at label len(df.index), filled from the
\* first row of old_filename
duplicate_landmarks(df, new_filename, old_filename) ==
    Append(df, [file |-> new_filename, lmk |-> FirstRow(df, old_filename).lmk])

\* variant: the landmark is turned the other way round
RotatePointReversed(p, shape, angle) ==
    LET dx == 2 * p[1] - shape.w
        dy == 2 * p[2] - shape.h
    IN  {<<qx, qy>> :
            qx \in RoundSet(shape.w + Cos(angle) * dx + Sin(angle) * dy, 2),
            qy \in RoundSet(shape.h - Sin(angle) * dx + Cos(angle) * dy, 2)}

\* rotate_landmarks, for one point: the set of possible rounded results
RotatePoint(p, shape, angle) ==
    LET dx == 2 * p[1] - shape.w
        dy == 2 * p[2] - shape.h
    IN  {<<qx, qy>> :
            qx \in RoundSet(shape.w + Cos(angle) * dx - Sin(angle) * dy, 2),
            qy \in RoundSet(shape.h + Sin(angle) * dx + Cos(angle) * dy, 2)}

\* variant: the zoom is taken for a percentage
ScalePointPercent(p, shape, zoom) ==
    {<<qx, qy>> :
        qx \in RoundSet(100 * shape.w + zoom * (2 * p[1] - shape.w), 200),
        qy \in RoundSet(100 * shape.h + zoom * (2 * p[2] - shape.h), 200)}

\* scale_landmarks, for one point (zoom is in thousandths)
ScalePoint(p, shape, zoom) ==
    {<<qx, qy>> :
        qx \in RoundSet(1000 * shape.w + zoom * (2 * p[1] - shape.w), 2000),
        qy \in RoundSet(1000 * shape.h + zoom * (2 * p[2] - shape.h), 2000)}

\* rotate_landmarks followed by scale_landmarks on the cells of one row
AugmentedCells(cells, shape, angle, zoom) ==
    {c \in [Landmarks -> UNION {ScalePoint(r, shape, zoom) :
                                   r \in UNION {RotatePoint(cells[l], shape, angle) :
                                                   l \in Landmarks}}] :
        \A l \in Landmarks :
            \E r \in RotatePoint(cells[l], shape, angle) :
                c[l] \in ScalePoint(r, shape, zoom)}

\* ------------------------------------------------------------------------
\* State
\* ------------------------------------------------------------------------
VARIABLES
    \* arguments of training_data_preprocessing and the file system
    df_landmarks,           \* the caller's landmark table
    df_files,               \* the caller's file table
    shares,                 \* the local tables ("copy", "val", "train") that
                            \* are the very object the caller passed
    n_data_augmentation,
    binning,
    test_size,              \* numerator of test_size over FracDen
    train_dir,              \* output_folder_train: [exists, files, csv]
    val_dir,                \* output_folder_val
    \* locals of training_data_preprocessing
    bpc,                    \* position in the function
    build_error,            \* the exception that ended the build, or "none"
    df_landmarks_copy,
    df_landmarks_val,
    df_landmarks_train,
    todo,                   \* file names the current for loop still visits
    aug_k,                  \* k of the inner augmentation loop
    aug_angle,              \* angle: the last rd.randint(0, 360)
    aug_zoom,               \* zoom * 1000: the last rd.randint(700, 1300)
    augmented_image         \* the last augmented image: the image it was
                            \* made from and the transforms applied to it

buildVars == <<df_landmarks, df_files, shares, n_data_augmentation, binning, test_size,
               train_dir, val_dir, bpc, build_error, df_landmarks_copy,
               df_landmarks_val, df_landmarks_train, todo, aug_k,
               aug_angle, aug_zoom, augmented_image>>

\* the locals of the augmentation loop
augLocals == <<aug_angle, aug_zoom, augmented_image>>

VARIABLES
    \* fields of WindowCallback
    epochs_left,
    folder,
    save_freq,
    model_name,
    filepath,
    metrics,            \* <<>> for {}, <<v>> for {'val_loss': v, ...}
    previous_metrics,
    current_epoch,
    model_to_save,      \* <<>> while the attribute is unset, else <<object>>
    \* the fit call
    tpc,                \* position of the fit call
    nb_epochs,          \* epochs argument of fit
    epoch,              \* epochs fit has completed
    model,              \* weights of the live model: the number of epochs
                        \* that have updated them
    logs,               \* val_loss of the epoch just completed
    history,            \* model.history: val_loss of every completed epoch
    train_error,        \* the exception that ended fit, or "none"
    \* the file system under the project folder, and the saves made
    disk,               \* path -> weights of the saved model
    saves               \* the calls of save, in order

trainVars == <<epochs_left, folder, save_freq, model_name, filepath, metrics,
               previous_metrics, current_epoch, model_to_save, tpc, nb_epochs,
               epoch, model, logs, history, train_error, disk, saves>>

VARIABLES
    \* a call of one of the geometric transforms
    geo_call,           \* the function called and its arguments
    geo_ret             \* its outcome, "pending" before it has run

geoVars == <<geo_call, geo_ret>>

VARIABLES
    \* a call of predict_landmarks
    pred_call,          \* the images, the model and what the model predicts
    pred_pc,            \* position in predict_landmarks
    pred_images,        \* images: the shapes of the resized images
    pred_image,         \* image: the image the loop of line 761 loaded last
    prediction,         \* the rescaled predictions, as fractions
    df_pred_lmk,        \* the table written to lmk_filename
    pred_error          \* the exception that ended the call, or "none"

predVars == <<pred_call, pred_pc, pred_images, pred_image, prediction,
              df_pred_lmk, pred_error>>

VARIABLES
    \* a call of train_CNN_with_window_callback or of
    \* fine_tune_CNN_with_window_callback
    l_kind,             \* which of the two launchers
    l_train,            \* shapes of the images of the training folder
    l_val,              \* shapes of the images of the validation folder
    l_pc,               \* position in the launcher
    l_train_ret,        \* outcome of import_data on the training folder
    l_val_ret,          \* outcome of import_data on the validation folder
    l_error,            \* the exception that ended the launcher, or "none"
    l_threads           \* the threads the launcher has started

launchVars == <<l_kind, l_train, l_val, l_pc, l_train_ret, l_val_ret, l_error,
                l_threads>>

VARIABLES
    \* a call of fine_tune_CNN
    layers,             \* CNN_model.layers: [kind, trainable] of each layer
    learning_rate,      \* learning rate of the optimizer the model holds
    compiled,           \* what the last compile fixed
    ft_pc,              \* position in fine_tune_CNN
    ft_i,               \* layers the loop of line 716 has visited
    ft_epochs,          \* nb_epochs
    ft_epoch,           \* epochs the fit of line 722 has completed
    ft_log,             \* the trainable flags and learning rate each
                        \* epoch ran with
    \* the calls of train_CNN that follow on the same model object
    tc_epochs,          \* nb_epochs of the call
    tc_epoch,           \* epochs the fit of line 643 has completed
    tc_runs,            \* calls of train_CNN that have returned
    tc_log              \* the settings the epochs of train_CNN ran with

ftVars == <<layers, learning_rate, compiled, ft_pc, ft_i, ft_epochs, ft_epoch,
            ft_log, tc_epochs, tc_epoch, tc_runs, tc_log>>

VARIABLES
    \* a session of start_image_registration_GUI
    shared,             \* the dictionary shared between the windows: the
                        \* selection, the open image, the contour points
    list_landmarks,     \* shared['list_landmarks']; <<>> before a project
                        \* is loaded
    lmk_positions,      \* the row of df_landmarks of the current file
    train_folder,       \* <proj_folder>/training_data on disk
    val_folder,         \* <proj_folder>/validation_data on disk
    print_text,         \* the text of the -PRINT- element
    last_event          \* the event handled last and what its handler did

guiVars == <<shared, list_landmarks, lmk_positions, train_folder, val_folder,
             print_text, last_event>>

vars == <<buildVars, trainVars, geoVars, predVars, launchVars, ftVars, guiVars>>

\* the variables each operation leaves alone
notBuild == <<trainVars, geoVars, predVars, launchVars, ftVars, guiVars>>
notTrain == <<buildVars, geoVars, predVars, launchVars, ftVars, guiVars>>
notGeo == <<buildVars, trainVars, predVars, launchVars, ftVars, guiVars>>
notPred == <<buildVars, trainVars, geoVars, launchVars, ftVars, guiVars>>
notLaunch == <<buildVars, trainVars, geoVars, predVars, ftVars, guiVars>>
notFt == <<buildVars, trainVars, geoVars, predVars, launchVars, guiVars>>
notGui == <<buildVars, trainVars, geoVars, predVars, launchVars, ftVars>>

\* an output folder that does not exist, and one left by a previous build
AbsentDir == [exists |-> FALSE, files |-> {}, csv |-> <<>>]
StaleDir == [exists |-> TRUE, files |-> {OldFile}, csv |-> << <<>> >>]

\* the landmark tables a caller can pass: n rows with distinct file names,
\* each row fully annotated or lacking one landmark
MissingKinds == {{}, {"L2"}}
CallerRow(b, missing) ==
    [file |-> FileName(b),
     lmk |-> [l \in Landmarks |-> IF l \in missing THEN NaN ELSE OrigCoord(b, l)]]
CallerTables ==
    UNION {{[b \in 1..n |-> CallerRow(b, m[b])] : m \in [1..n -> MissingKinds]} :
              n \in 0..MaxN}

\* os.mkdir(folder) on a folder that does not exist
Mkdir(dir) == [dir EXCEPT !.exists = TRUE]

\* glob + os.remove of every file of a folder (nothing for a missing folder)
RemoveFiles(dir) == [dir EXCEPT !.files = {}, !.csv = <<>>]

\* the file table that goes with a landmark table: the path of every image
FilesOf(df) == [i \in 1..Len(df) |-> [file |-> df[i].file,
                                      path |-> <<"raw", df[i].file>>]]

\* variant: the result is the object it was made from
AliasFrame(sh, name, from) ==
    IF from = "caller" \/ from \in sh THEN sh \cup {name} ELSE sh \ {name}

\* name = from.copy(), from.dropna(), from.reset_index(drop=True),
\* from.sample(...) or from.drop(...): each returns a new table, so name
\* no longer shares the caller's object
NewFrame(sh, name, from) == sh \ {name}

\* the caller's table after an in-place write (.loc[...] = ...) to the
\* local table name, of which written is the new content
WrittenThrough(name, written) ==
    IF name \in shares THEN written ELSE df_landmarks

\* lines 273-282: try mkdir(train); mkdir(val) except: remove the files of both
BuildFolders ==
    /\ UNCHANGED notBuild
    /\ bpc = "mkdir"
    /\ IF train_dir.exists
       THEN \* mkdir(train) raises: val is never created
            /\ train_dir' = RemoveFiles(train_dir)
            /\ val_dir' = RemoveFiles(val_dir)
       ELSE IF val_dir.exists
       THEN \* mkdir(train) succeeds, mkdir(val) raises
            /\ train_dir' = RemoveFiles(Mkdir(train_dir))
            /\ val_dir' = RemoveFiles(val_dir)
       ELSE /\ train_dir' = Mkdir(train_dir)
            /\ val_dir' = Mkdir(val_dir)
    /\ bpc' = "dropna"
    /\ UNCHANGED augLocals
    /\ UNCHANGED <<df_landmarks, df_files, shares, n_data_augmentation, binning, test_size,
                   build_error, df_landmarks_copy, df_landmarks_val,
                   df_landmarks_train, todo, aug_k>>

\* lines 284-287
BuildClean ==
    /\ UNCHANGED notBuild
    /\ bpc = "dropna"
    /\ df_landmarks_copy' = Dropna(df_landmarks)
    /\ bpc' = "split"
    /\ shares' = NewFrame(shares, "copy", "caller")
    /\ UNCHANGED augLocals
    /\ UNCHANGED <<df_landmarks, df_files, n_data_augmentation, binning, test_size,
                   train_dir, val_dir, build_error, df_landmarks_val,
                   df_landmarks_train, todo, aug_k>>

\* lines 289-291, and the evaluation of the iterable of the loop of line 294
BuildSplit ==
    /\ UNCHANGED notBuild
    /\ bpc = "split"
    /\ \E val \in Samples(df_landmarks_copy,
                          ValCount(test_size, Len(df_landmarks_copy))) :
          /\ df_landmarks_val' = val
          /\ df_landmarks_train' = DropLabels(df_landmarks_copy, IndexLabels(val))
    /\ todo' = UniqueFiles(df_landmarks_train')
    /\ aug_k' = 0
    /\ bpc' = "train_file"
    /\ shares' = NewFrame(NewFrame(shares, "val", "copy"), "train", "copy")
    /\ UNCHANGED augLocals
    /\ UNCHANGED <<df_landmarks, df_files, n_data_augmentation, binning, test_size,
                   train_dir, val_dir, build_error, df_landmarks_copy>>

\* the end of the training loop: the iterable of the loop of line 332
StartValLoop ==
    /\ todo' = UniqueFiles(df_landmarks_val)
    /\ bpc' = "val_file"

\* img_PIL.save(os.path.join(folder, file_name))
SaveImage(dir, fname) == [dir EXCEPT !.files = @ \cup {fname}]

\* lines 294-304: one iteration of the training loop up to the inner loop
BuildTrainFile ==
    /\ UNCHANGED notBuild
    /\ bpc = "train_file"
    /\ IF todo = <<>>
       THEN /\ StartValLoop
            /\ UNCHANGED <<df_landmarks_train, train_dir, aug_k, build_error>>
       ELSE IF binning # 0 /\ ~Complete(FirstRow(df_landmarks_train, Head(todo)))
       THEN \* ast.literal_eval of a nan cell
            /\ build_error' = "ValueError"
            /\ bpc' = "crashed"
            /\ UNCHANGED <<df_landmarks_train, train_dir, aug_k, todo>>
       ELSE /\ df_landmarks_train' =
                  IF binning # 0
                  THEN landmarks_downsample(Head(todo), df_landmarks_train, binning)
                  ELSE df_landmarks_train
            /\ train_dir' = SaveImage(train_dir, Head(todo))
            /\ aug_k' = 0
            /\ bpc' = "augment"
            /\ UNCHANGED <<todo, build_error>>
    /\ df_landmarks' = WrittenThrough("train", df_landmarks_train')
    /\ UNCHANGED augLocals
    /\ UNCHANGED <<df_files, shares, n_data_augmentation, binning, test_size,
                   val_dir, df_landmarks_copy, df_landmarks_val>>

\* lines 311-317: rotate_image, then scale_image, then the added noise
AugmentImage(file_name, a, z) ==
    [of |-> file_name,
     ops |-> << <<"rotate_image", a>>, <<"scale_image", z>>, <<"gauss_noise">> >>]

\* lines 307-327: one iteration of the augmentation loop
BuildAugment ==
    /\ UNCHANGED notBuild
    /\ bpc = "augment"
    /\ IF aug_k >= n_data_augmentation
       THEN /\ todo' = Tail(todo)
            /\ bpc' = "train_file"
            /\ UNCHANGED <<df_landmarks_train, train_dir, aug_k, build_error>>
            /\ UNCHANGED augLocals
       ELSE IF ~Complete(FirstRow(df_landmarks_train, Head(todo)))
       THEN \* the image is saved and the row duplicated, then
            \* ast.literal_eval of a nan cell in rotate_landmarks
            /\ train_dir' = SaveImage(train_dir, AugFileName(aug_k, Head(todo)))
            /\ df_landmarks_train' =
                  duplicate_landmarks(df_landmarks_train,
                                      AugFileName(aug_k, Head(todo)), Head(todo))
            /\ \E draw \in AugDraws :
                  /\ aug_angle' = draw[1]
                  /\ aug_zoom' = draw[2]
                  /\ augmented_image' = AugmentImage(Head(todo), draw[1], draw[2])
            /\ build_error' = "ValueError"
            /\ bpc' = "crashed"
            /\ UNCHANGED <<aug_k, todo>>
       ELSE LET file_name == Head(todo)
                new_file_name == AugFileName(aug_k, file_name)
                shape == BinnedShape(binning)
                dup == duplicate_landmarks(df_landmarks_train, new_file_name, file_name)
            IN  /\ \E draw \in AugDraws :
                     /\ aug_angle' = draw[1]
                     /\ aug_zoom' = draw[2]
                     /\ augmented_image' = AugmentImage(file_name, draw[1], draw[2])
                     /\ \E cells \in AugmentedCells(FirstRow(dup, new_file_name).lmk,
                                                    shape, aug_angle', aug_zoom') :
                           df_landmarks_train' = SetCells(dup, new_file_name, cells)
                /\ train_dir' = SaveImage(train_dir, new_file_name)
                /\ aug_k' = aug_k + 1
                /\ UNCHANGED <<todo, bpc, build_error>>
    /\ df_landmarks' = WrittenThrough("train", df_landmarks_train')
    /\ UNCHANGED <<df_files, shares, n_data_augmentation, binning, test_size,
                   val_dir, df_landmarks_copy, df_landmarks_val>>

\* lines 332-342: one iteration of the validation loop
BuildValFile ==
    /\ UNCHANGED notBuild
    /\ bpc = "val_file"
    /\ IF todo = <<>>
       THEN /\ bpc' = "to_csv"
            /\ UNCHANGED <<df_landmarks_val, val_dir, build_error, todo>>
       ELSE IF binning # 0 /\ ~Complete(FirstRow(df_landmarks_val, Head(todo)))
       THEN \* ast.literal_eval of a nan cell
            /\ build_error' = "ValueError"
            /\ bpc' = "crashed"
            /\ UNCHANGED <<df_landmarks_val, val_dir, todo>>
       ELSE IF ~val_dir.exists
       THEN \* img_PIL.save into a folder that was never created
            /\ build_error' = "FileNotFoundError"
            /\ bpc' = "crashed"
            /\ df_landmarks_val' =
                  IF binning # 0
                  THEN landmarks_downsample(Head(todo), df_landmarks_val, binning)
                  ELSE df_landmarks_val
            /\ UNCHANGED <<val_dir, todo>>
       ELSE /\ df_landmarks_val' =
                  IF binning # 0
                  THEN landmarks_downsample(Head(todo), df_landmarks_val, binning)
                  ELSE df_landmarks_val
            /\ val_dir' = SaveImage(val_dir, Head(todo))
            /\ todo' = Tail(todo)
            /\ UNCHANGED <<bpc, build_error>>
    /\ df_landmarks' = WrittenThrough("val", df_landmarks_val')
    /\ UNCHANGED augLocals
    /\ UNCHANGED <<df_files, shares, n_data_augmentation, binning, test_size,
                   train_dir, df_landmarks_copy, df_landmarks_train, aug_k>>

\* df.to_csv(os.path.join(folder, "df_landmarks.csv"))
ToCsv(dir, df) == [dir EXCEPT !.csv = <<df>>]

\* lines 344-347
BuildSave ==
    /\ UNCHANGED notBuild
    /\ bpc = "to_csv"
    /\ train_dir' = ToCsv(train_dir, df_landmarks_train)
    /\ IF val_dir.exists
       THEN /\ val_dir' = ToCsv(val_dir, df_landmarks_val)
            /\ bpc' = "done"
            /\ UNCHANGED build_error
       ELSE /\ build_error' = "FileNotFoundError"
            /\ bpc' = "crashed"
            /\ UNCHANGED val_dir
    /\ UNCHANGED augLocals
    /\ UNCHANGED <<df_landmarks, df_files, shares, n_data_augmentation, binning, test_size,
                   df_landmarks_copy, df_landmarks_val, df_landmarks_train,
                   todo, aug_k>>

\* ------------------------------------------------------------------------
\* WindowCallback and the fit loop that drives it
\* ------------------------------------------------------------------------
\* default of the save_freq parameter of WindowCallback.__init__
DefaultSaveFreq == 10
SaveFreqs == 1..MaxSaveFreq \cup {DefaultSaveFreq}

\* default of the model_name parameter, and a name a caller passes
ModelNames == {"landmarks_detection_model.h5", "cnn"}

\* os.path.join(self.folder, self.model_name) + ".h5" (line 822)
InitFilepath(dir, name) == <<dir, name, ".h5">>

\* variant: on_train_end omits the extension
TrainEndFilepathNoExt(dir, name) == <<dir, name>>

\* os.path.join(self.folder, self.model_name) + ".h5" (line 873)
TrainEndFilepath(dir, name) == <<dir, name, ".h5">>

\* variant: plain assignment, the snapshot is the live model object
AliasCopy(m) == [alias |-> TRUE, weights |-> m]

\* copy.deepcopy(self.model): a new object holding the current weights,
\* independent of the live model (alias: the object is the live model)
Deepcopy(m) == [alias |-> FALSE, weights |-> m]

\* the weights a model object holds when the live model holds live
WeightsOf(obj, live) == IF obj.alias THEN live ELSE obj.weights

\* variant: the comparison starts at the first epoch
PastBaselineFromFirst(cur) == cur > 0

\* if self.current_epoch > 1 (line 861)
PastBaseline(cur) == cur > 1

\* variant: on_train_end saves the retained snapshot
TrainEndWeightsSnapshot(live, snapshot) == snapshot

\* the weights on_train_end saves: those of self.model (line 874), given
\* the weights of the live model and of the retained snapshot
TrainEndWeights(live, snapshot) == live

\* variant: an equal loss counts as an improvement
ImprovedOrEqual(cur, prev) == cur[1] <= prev[1]

\* self.metrics['val_loss'] < self.previous_metrics['val_loss']
Improved(cur, prev) == cur[1] < prev[1]

\* variant: the countdown is not decremented
CountdownStuck(left) == left

\* self.epochs_left = self.epochs_left - 1
Countdown(left) == left - 1

\* variant: the countdown is tested before it is decremented
SaveDueBeforeDecrement(left, freq) == (left + 1) % freq = 0

\* self.epochs_left % self.save_freq == 0 (Python's %, divisor positive)
SaveDue(left, freq) == left % freq = 0

\* model.save(path, overwrite=True)
Save(fs, path, weights) ==
    [q \in DOMAIN fs \cup {path} |-> IF q = path THEN weights ELSE fs[q]]

NoFiles == [q \in {} |-> 0]

\* on_train_begin (lines 824-832)
on_train_begin ==
    /\ UNCHANGED notTrain
    /\ tpc = "constructed"
    /\ metrics' = <<>>
    /\ previous_metrics' = <<>>
    /\ current_epoch' = 0
    /\ tpc' = "fitting"
    /\ UNCHANGED <<epochs_left, folder, save_freq, model_name, filepath,
                   model_to_save, nb_epochs, epoch, model, logs, history,
                   train_error, disk, saves>>

\* one epoch of model.fit: the weights are updated and the validation loss
\* of the epoch is computed
FitEpoch ==
    /\ UNCHANGED notTrain
    /\ tpc = "fitting"
    /\ epoch < nb_epochs
    /\ epoch' = epoch + 1
    /\ model' = model + 1
    /\ \E val_loss \in 1..MaxLoss :
          /\ logs' = <<val_loss>>
          /\ history' = Append(history, val_loss)
    /\ tpc' = "epoch_end"
    /\ UNCHANGED <<epochs_left, folder, save_freq, model_name, filepath,
                   metrics, previous_metrics, current_epoch, model_to_save,
                   nb_epochs, train_error, disk, saves>>

\* on_epoch_end (lines 834-868)
on_epoch_end ==
    /\ UNCHANGED notTrain
    /\ tpc = "epoch_end"
    /\ previous_metrics' = metrics
    /\ metrics' = logs
    /\ epochs_left' = Countdown(epochs_left)
    /\ current_epoch' = current_epoch + 1
    /\ IF PastBaseline(current_epoch') /\ previous_metrics' = <<>>
       THEN \* self.previous_metrics['val_loss'] on an empty dict
            /\ train_error' = "KeyError"
            /\ tpc' = "crashed"
            /\ UNCHANGED <<model_to_save, disk, saves>>
       ELSE IF PastBaseline(current_epoch')
       THEN /\ model_to_save' =
                  IF Improved(metrics', previous_metrics')
                  THEN <<Deepcopy(model)>> ELSE model_to_save
            /\ IF SaveDue(epochs_left', save_freq)
               THEN LET saved == WeightsOf(model_to_save'[1], model)
                    IN  /\ disk' = Save(disk, filepath, saved)
                        /\ saves' = Append(saves, [by |-> "on_epoch_end",
                                                   epoch |-> current_epoch',
                                                   path |-> filepath,
                                                   weights |-> saved])
               ELSE UNCHANGED <<disk, saves>>
            /\ tpc' = "fitting"
            /\ UNCHANGED train_error
       ELSE /\ model_to_save' = <<Deepcopy(model)>>
            /\ tpc' = "fitting"
            /\ UNCHANGED <<train_error, disk, saves>>
    /\ UNCHANGED <<folder, save_freq, model_name, filepath, nb_epochs, epoch,
                   model, logs, history>>

\* on_train_end (lines 870-874)
on_train_end ==
    /\ UNCHANGED notTrain
    /\ tpc = "fitting"
    /\ epoch >= nb_epochs
    /\ LET saved == TrainEndWeights(model,
                                    IF model_to_save = <<>> THEN model
                                    ELSE WeightsOf(model_to_save[1], model))
       IN  /\ disk' = Save(disk, TrainEndFilepath(folder, model_name), saved)
           /\ saves' = Append(saves, [by |-> "on_train_end",
                                      epoch |-> current_epoch,
                                      path |-> TrainEndFilepath(folder, model_name),
                                      weights |-> saved])
    /\ tpc' = "done"
    /\ UNCHANGED <<epochs_left, folder, save_freq, model_name, filepath,
                   metrics, previous_metrics, current_epoch, model_to_save,
                   nb_epochs, epoch, model, logs, history, train_error>>

\* ------------------------------------------------------------------------
\* The transforms of images and of landmark tables, called on their own
\* ------------------------------------------------------------------------
\* the images passed to the transforms: 2 x 2 samples
ImageShape == [h |-> 2, w |-> 2]
PixelPositions(shape) == (1..shape.h) \X (1..shape.w)
Images == [PixelPositions(ImageShape) -> 0..MaxPixel]

\* the arguments the transforms are called with
GeoBinnings == {1, 2}
GeoAngles == {0, 45}
GeoZooms == {700, 1000, 1300}

\* further image sizes scale_image and scale_landmarks are called with (odd
\* sides); the images of these sizes are uniform
OtherShapes == {[h |-> 3, w |-> 3], [h |-> 3, w |-> 2]}
GeoShapes == {ImageShape} \cup OtherShapes
UniformImages ==
    {[p \in PixelPositions(s) |-> v] : s \in OtherShapes, v \in 0..MaxPixel}

\* image.shape
ShapeOf(image) == CHOOSE s \in GeoShapes : DOMAIN image = PixelPositions(s)

\* image[image > 0]
PositiveSamples(image) == {p \in DOMAIN image : image[p] > 0}

RECURSIVE SumSamples(_, _)
SumSamples(image, S) ==
    IF S = {} THEN 0
    ELSE LET p == CHOOSE q \in S : TRUE
         IN  image[p] + SumSamples(image, S \ {p})

\* np.mean(image[image > 0]) as the fraction <<sum, count>>; the mean of an
\* empty selection is nan (numpy warns, it does not raise)
MeanPositive(image) ==
    IF PositiveSamples(image) = {} THEN NaN
    ELSE <<SumSamples(image, PositiveSamples(image)),
           Cardinality(PositiveSamples(image))>>

\* sample / mean as a fraction; anything divided by nan is nan
DivideByMean(v, mean) == IF mean = NaN THEN NaN ELSE <<v * mean[2], mean[1]>>

MinSample(image) == CHOOSE v \in 0..MaxPixel :
    /\ \E p \in DOMAIN image : image[p] = v
    /\ \A p \in DOMAIN image : image[p] >= v
MaxSample(image) == CHOOSE v \in 0..MaxPixel :
    /\ \E p \in DOMAIN image : image[p] = v
    /\ \A p \in DOMAIN image : image[p] <= v

\* resize(img, dim, preserve_range=True, anti_aliasing=True).astype('uint16'):
\* every sample of the result is a truncated weighted average of samples
\* of img
Resized(img, shape) ==
    [PixelPositions(shape) -> MinSample(img)..MaxSample(img)]

\* image_downsample: the images it can return
image_downsample(img, b, normalize) ==
    LET dim == [h |-> TruncDiv(ImageShape.h, b), w |-> TruncDiv(ImageShape.w, b)]
    IN  {[p \in PixelPositions(dim) |->
             IF normalize THEN DivideByMean(r[p], MeanPositive(r))
             ELSE <<r[p], 1>>] : r \in Resized(img, dim)}

\* rotate_image: the value given to the pixels the rotated image leaves
\* empty, and the pixels that are empty (none when the image is not turned)
rotate_image(image, angle) ==
    {[cval |-> MeanPositive(image), empty |-> e] :
        e \in IF angle % 360 = 0 THEN {{}}
              ELSE SUBSET PixelPositions(ImageShape)}

\* scale_image: zoom > 1 crops the magnified image; otherwise the shrunk
\* image is pasted at (o // 2 - n // 2) into an image filled with av_color
\* The result records the shape of new_image, whether it is cut out of or
\* pasted over with scaled_image, at which (starty, startx), and the shape
\* of scaled_image (ndimage.zoom gives round(side * zoom) samples a side).
scale_image(image, zoom) ==
    LET av_color == MeanPositive(image)
        o_y_s == ShapeOf(image).h
        o_x_s == ShapeOf(image).w
        n_y_s == RoundHalfEven(o_y_s * zoom, 1000)
        n_x_s == RoundHalfEven(o_x_s * zoom, 1000)
    IN  IF zoom > 1000
        THEN [shape |-> [h |-> o_y_s, w |-> o_x_s],
              kind |-> "crop",
              at |-> <<n_y_s \div 2 - o_y_s \div 2, n_x_s \div 2 - o_x_s \div 2>>,
              scaled |-> [h |-> n_y_s, w |-> n_x_s],
              cval |-> av_color, empty |-> {}]
        ELSE LET starty == o_y_s \div 2 - n_y_s \div 2
                 startx == o_x_s \div 2 - n_x_s \div 2
                 pasted == {p \in PixelPositions(ShapeOf(image)) :
                               /\ p[1] - 1 \in starty..(starty + n_y_s - 1)
                               /\ p[2] - 1 \in startx..(startx + n_x_s - 1)}
             IN  [shape |-> [h |-> o_y_s, w |-> o_x_s],
                  kind |-> "paste",
                  at |-> <<starty, startx>>,
                  scaled |-> [h |-> n_y_s, w |-> n_x_s],
                  cval |-> av_color,
                  empty |-> PixelPositions(ShapeOf(image)) \ pasted]

\* scale_landmarks: the tables it can return (zoom is in thousandths)
scale_landmarks(shape, zoom, df, filename) ==
    LET src == FirstRow(df, filename).lmk
    IN  {SetCells(df, filename, cells) :
            cells \in {c \in [Landmarks -> UNION {ScalePoint(src[l], shape, zoom) :
                                                      l \in Landmarks}] :
                          \A l \in Landmarks : c[l] \in ScalePoint(src[l], shape, zoom)}}

\* the one-row landmark table landmarks_downsample is called on
GeoTable(x, y) ==
    <<[file |-> FileName(1),
       lmk |-> [l \in Landmarks |-> IF l = "L1" THEN <<x, y>> ELSE <<y, x>>]]>>

GeoCalls ==
    {[fn |-> "landmarks_downsample", file_name |-> FileName(1),
      df_landmarks |-> GeoTable(x, y), binning |-> f] :
        x \in 0..MaxCoord, y \in 0..MaxCoord, f \in 1..MaxFactor}
    \cup {[fn |-> "image_downsample", img |-> i, binning |-> b, normalize |-> n] :
              i \in Images, b \in GeoBinnings, n \in BOOLEAN}
    \cup {[fn |-> "rotate_image", image |-> i, angle |-> a] :
              i \in Images, a \in GeoAngles}
    \cup {[fn |-> "scale_image", image |-> i, zoom |-> z] :
              i \in Images \cup UniformImages, z \in GeoZooms}
    \cup {[fn |-> "scale_landmarks", img |-> s, zoom |-> z,
           df_landmarks |-> GeoTable(x, y), filename |-> FileName(1)] :
              s \in GeoShapes, z \in GeoZooms,
              x \in 0..MaxCoord, y \in 0..MaxCoord}

CallScaleLandmarks ==
    /\ UNCHANGED notGeo
    /\ geo_call.fn = "scale_landmarks"
    /\ geo_ret.status = "pending"
    /\ \E out \in scale_landmarks(geo_call.img, geo_call.zoom,
                                   geo_call.df_landmarks, geo_call.filename) :
           geo_ret' = [status |-> "returned", value |-> out]
    /\ UNCHANGED geo_call

CallLandmarksDownsample ==
    /\ UNCHANGED notGeo
    /\ geo_call.fn = "landmarks_downsample"
    /\ geo_ret.status = "pending"
    /\ geo_ret' = [status |-> "returned",
                   value |-> landmarks_downsample(geo_call.file_name,
                                                  geo_call.df_landmarks,
                                                  geo_call.binning)]
    /\ UNCHANGED geo_call

CallImageDownsample ==
    /\ UNCHANGED notGeo
    /\ geo_call.fn = "image_downsample"
    /\ geo_ret.status = "pending"
    /\ \E out \in image_downsample(geo_call.img, geo_call.binning,
                                    geo_call.normalize) :
           geo_ret' = [status |-> "returned", value |-> out]
    /\ UNCHANGED geo_call

CallRotateImage ==
    /\ UNCHANGED notGeo
    /\ geo_call.fn = "rotate_image"
    /\ geo_ret.status = "pending"
    /\ \E out \in rotate_image(geo_call.image, geo_call.angle) :
           geo_ret' = [status |-> "returned", value |-> out]
    /\ UNCHANGED geo_call

CallScaleImage ==
    /\ UNCHANGED notGeo
    /\ geo_call.fn = "scale_image"
    /\ geo_ret.status = "pending"
    /\ geo_ret' = [status |-> "returned",
                   value |-> scale_image(geo_call.image, geo_call.zoom)]
    /\ UNCHANGED geo_call

\* ------------------------------------------------------------------------
\* predict_landmarks
\* ------------------------------------------------------------------------
\* model.input_shape and the native shapes of the images of df_files
ModelShape == [h |-> 128, w |-> 128]
NativeShapes == {[h |-> 128, w |-> 128], [h |-> 256, w |-> 256],
                 [h |-> 160, w |-> 256]}

\* the points the model can predict, in the pixel space of its input
PredPoints == {<<64, 64>>, <<33, 99>>}

PredCalls ==
    UNION {{[shapes |-> sh, model_shape |-> ModelShape, train_predicts |-> tp] :
               sh \in [1..n -> NativeShapes],
               tp \in [1..n -> [Landmarks -> PredPoints]]} : n \in 0..MaxImages}

\* lines 761-772: one pass of the loop over the images; image is rebound
\* to the image just opened, and its resized copy is appended to images
PredLoadImage ==
    /\ UNCHANGED notPred
    /\ pred_pc = "load"
    /\ Len(pred_images) < Len(pred_call.shapes)
    /\ pred_image' = [bound |-> TRUE,
                      shape |-> pred_call.shapes[Len(pred_images) + 1]]
    /\ pred_images' = Append(pred_images, pred_call.model_shape)
    /\ UNCHANGED <<pred_call, pred_pc, prediction, df_pred_lmk, pred_error>>

\* lines 774-789: after the loop, the scale factors are taken from image
\* (unbound when the loop never ran) and applied to every row of the
\* predictions
PredRescale ==
    /\ UNCHANGED notPred
    /\ pred_pc = "load"
    /\ Len(pred_images) = Len(pred_call.shapes)
    /\ IF ~pred_image.bound
       THEN /\ pred_pc' = "crashed"
            /\ pred_error' = "UnboundLocalError"
            /\ UNCHANGED prediction
       ELSE LET image_width == pred_image.shape.w
                image_height == pred_image.shape.h
                model_width == pred_call.model_shape.w
                model_height == pred_call.model_shape.h
            IN  /\ prediction' =
                       [i \in 1..Len(pred_call.train_predicts) |->
                           [l \in Landmarks |->
                               <<[num |-> image_width * pred_call.train_predicts[i][l][1],
                                  den |-> model_width],
                                 [num |-> image_height * pred_call.train_predicts[i][l][2],
                                  den |-> model_height]>>]]
                /\ pred_pc' = "save"
                /\ UNCHANGED pred_error
    /\ UNCHANGED <<pred_call, pred_images, pred_image, df_pred_lmk>>

\* variant: the nearest integer
PixelOfRounded(c) == (2 * c.num + c.den) \div (2 * c.den)

\* int(prediction[i, j, 0]): truncation toward zero
PixelOf(c) == TruncDiv(c.num, c.den)

\* lines 792-805: the coordinates are truncated to integers and the table
\* is written
PredSave ==
    /\ UNCHANGED notPred
    /\ pred_pc = "save"
    /\ df_pred_lmk' =
           [i \in 1..Len(prediction) |->
               [l \in Landmarks |->
                   <<PixelOf(prediction[i][l][1]), PixelOf(prediction[i][l][2])>>]]
    /\ pred_pc' = "done"
    /\ UNCHANGED <<pred_call, pred_images, pred_image, prediction, pred_error>>

\* ------------------------------------------------------------------------
\* import_data and the two launchers
\* ------------------------------------------------------------------------
\* the shapes of the images of a folder, one per row of its df_landmarks.csv
FolderShapes == {[h |-> 4, w |-> 4], [h |-> 4, w |-> 2]}
FolderFiles == {1, 2}

\* df_model["name"].unique(), in order
LandmarkOrder == <<"L1", "L2">>

\* the row at position i of a df_landmarks.csv: a file name, the shape of
\* the image of that name and the positions annotated in that row
FolderRow(i, f, s) ==
    [file |-> FileName(f), shape |-> s,
     lmk |-> [l \in Landmarks |->
                 IF l = "L1" THEN <<10 * f + i, 10 * f + i + 1>>
                 ELSE <<20 * f + i, 20 * f + i + 1>>]]

\* the tables a folder can hold: rows of the same file name name the same
\* image
FolderTablesOf(n) ==
    {[i \in 1..n |-> FolderRow(i, c[i][1], c[i][2])] :
        c \in {t \in [1..n -> FolderFiles \X FolderShapes] :
                  \A i, j \in 1..n : t[i][1] = t[j][1] => t[i][2] = t[j][2]}}
FolderTables == UNION {FolderTablesOf(n) : n \in 0..MaxFolder}

\* df_files["full path"], as the shape of the image each row names
ShapesOf(df) == [i \in 1..Len(df) |-> df[i].shape]

\* variant: only the first image is opened
check_image_shape_first(shapes) == [none |-> FALSE, shape |-> shapes[1]]

\* check_image_shape on a table with at least one row: None when a row
\* differs from the first, the shape of the first otherwise
check_image_shape(shapes) ==
    IF \E i \in 1..Len(shapes) : shapes[i] # shapes[1]
    THEN [none |-> TRUE, shape |-> [h |-> 0, w |-> 0]]
    ELSE [none |-> FALSE, shape |-> shapes[1]]

\* import_data: df_files["full path"].iloc[0] raises IndexError on a table
\* without rows; None is returned when check_image_shape returns None,
\* the two arrays otherwise
\* variant: y before x
landmark_positions_swapped(cells) ==
    <<cells[LandmarkOrder[1]][2], cells[LandmarkOrder[1]][1],
      cells[LandmarkOrder[2]][2], cells[LandmarkOrder[2]][1]>>

\* lines 394-398: landmark_positions += lmk_xy for every landmark, in order
landmark_positions(cells) ==
    <<cells[LandmarkOrder[1]][1], cells[LandmarkOrder[1]][2],
      cells[LandmarkOrder[2]][1], cells[LandmarkOrder[2]][2]>>

import_data(df) ==
    IF df = <<>> THEN [status |-> "raised", error |-> "IndexError"]
    ELSE LET img_shape == check_image_shape(ShapesOf(df))
             paths == UniqueFiles(df)
         IN  IF img_shape.none THEN [status |-> "None"]
             ELSE [status |-> "arrays",
                   \* one image per unique path, reshaped to
                   \* (len(unique paths), img_shape[0], img_shape[1], 1)
                   X |-> [i \in 1..Len(paths) |->
                             [file |-> paths[i], h |-> img_shape.shape.h,
                              w |-> img_shape.shape.w]],
                   y |-> [i \in 1..Len(paths) |->
                             landmark_positions(FirstRow(df, paths[i]).lmk)]]

\* X, y = import_data(...): the exception the statement ends with
UnpackError(ret) ==
    IF ret.status = "raised" THEN ret.error
    ELSE IF ret.status = "None" THEN "TypeError"
    ELSE "none"

\* import_train_val_data, line 440
ImportTrainData ==
    /\ UNCHANGED notLaunch
    /\ l_pc = "import_train"
    /\ l_train_ret' = import_data(l_train)
    /\ l_error' = UnpackError(l_train_ret')
    /\ l_pc' = IF l_error' = "none" THEN "import_val" ELSE "crashed"
    /\ UNCHANGED <<l_kind, l_train, l_val, l_val_ret, l_threads>>

\* import_train_val_data, line 441
ImportValData ==
    /\ UNCHANGED notLaunch
    /\ l_pc = "import_val"
    /\ l_val_ret' = import_data(l_val)
    /\ l_error' = UnpackError(l_val_ret')
    /\ l_pc' = IF l_error' = "none" THEN "callbacks" ELSE "crashed"
    /\ UNCHANGED <<l_kind, l_train, l_val, l_train_ret, l_threads>>

\* callbacks_list = [...]: line 605 calls window_callback, a name the module
\* does not define; line 677 calls WindowCallback
MakeCallbacks ==
    /\ UNCHANGED notLaunch
    /\ l_pc = "callbacks"
    /\ IF l_kind = "train"
       THEN /\ l_pc' = "crashed"
            /\ l_error' = "NameError"
       ELSE /\ l_pc' = "start"
            /\ UNCHANGED l_error
    /\ UNCHANGED <<l_kind, l_train, l_val, l_train_ret, l_val_ret, l_threads>>

\* threading.Thread(target=..., daemon=True).start(); return
StartThread ==
    /\ UNCHANGED notLaunch
    /\ l_pc = "start"
    /\ l_threads' = Append(l_threads,
                           [target |-> IF l_kind = "train" THEN "train_CNN"
                                       ELSE "fine_tune_CNN",
                            callbacks |-> <<"WindowCallback">>,
                            daemon |-> TRUE,
                            state |-> "running"])
    /\ l_pc' = "returned"
    /\ UNCHANGED <<l_kind, l_train, l_val, l_train_ret, l_val_ret, l_error>>

\* the worker's fit comes to its end
WorkerFinish ==
    /\ UNCHANGED notLaunch
    /\ \E i \in 1..Len(l_threads) :
           /\ l_threads[i].state = "running"
           /\ l_threads' = [l_threads EXCEPT ![i].state = "finished"]
    /\ UNCHANGED <<l_kind, l_train, l_val, l_pc, l_train_ret, l_val_ret, l_error>>

\* ------------------------------------------------------------------------
\* fine_tune_CNN
\* ------------------------------------------------------------------------
\* learning rates, in units of 1e-5: Adam's default 0.001 (the optimizer
\* create_CNN compiles with) and the Adam(1e-5) of fine_tune_CNN
DefaultLR == 100
ReducedLR == 1

Layer(kind, trainable) == [kind |-> kind, trainable |-> trainable]

\* the layers create_CNN adds: twelve blocks of Convolution2D, LeakyReLU and
\* BatchNormalization, a MaxPool2D after every second block but the last,
\* then Flatten and two Dense layers; every layer is trainable
ConvBlock == <<Layer("Convolution2D", TRUE), Layer("LeakyReLU", TRUE),
               Layer("BatchNormalization", TRUE)>>
PooledPair == ConvBlock \o ConvBlock \o <<Layer("MaxPool2D", TRUE)>>
create_CNN ==
    PooledPair \o PooledPair \o PooledPair \o PooledPair \o PooledPair
        \o ConvBlock \o ConvBlock
        \o <<Layer("Flatten", TRUE), Layer("Dense", TRUE), Layer("Dense", TRUE)>>

\* the models a caller can pass: the one create_CNN builds, or a loaded
\* model of a few layers whose trainable flags are whatever was saved
LoadedLayers == {Layer(k, t) : k \in {"Convolution2D", "BatchNormalization", "Dense"},
                               t \in BOOLEAN}
FtModels == {create_CNN} \cup UNION {[1..n -> LoadedLayers] : n \in 0..MaxLayers}

\* what compile fixes for the following fit: the trainable flag of every
\* layer and the learning rate of the optimizer
Compile(ls, lr) ==
    [status |-> "compiled",
     trainable |-> [i \in 1..Len(ls) |-> ls[i].trainable],
     learning_rate |-> lr]

\* variant: no layer is taken for a BatchNormalization layer
IsBatchNormNever(layer) == FALSE

\* isinstance(layer, BatchNormalization)
IsBatchNorm(layer) == layer.kind = "BatchNormalization"

\* the locals and the record of the calls of train_CNN
trainCall == <<tc_epochs, tc_epoch, tc_runs, tc_log>>

\* lines 716-718: one pass of the loop over CNN_model.layers
FreezeLayer ==
    /\ UNCHANGED notFt
    /\ UNCHANGED trainCall
    /\ ft_pc = "freeze"
    /\ ft_i < Len(layers)
    /\ layers' = IF IsBatchNorm(layers[ft_i + 1])
                 THEN [layers EXCEPT ![ft_i + 1].trainable = FALSE]
                 ELSE layers
    /\ ft_i' = ft_i + 1
    /\ UNCHANGED <<learning_rate, compiled, ft_pc, ft_epochs, ft_epoch, ft_log>>

\* line 721, reached when the loop is exhausted
Recompile ==
    /\ UNCHANGED notFt
    /\ UNCHANGED trainCall
    /\ ft_pc = "freeze"
    /\ ft_i = Len(layers)
    /\ learning_rate' = ReducedLR
    /\ compiled' = Compile(layers, ReducedLR)
    /\ ft_pc' = "fit"
    /\ UNCHANGED <<layers, ft_i, ft_epochs, ft_epoch, ft_log>>

\* line 722: one epoch of the fit, run with what the last compile fixed
FineTuneEpoch ==
    /\ UNCHANGED notFt
    /\ UNCHANGED trainCall
    /\ ft_pc = "fit"
    /\ ft_epoch < ft_epochs
    /\ ft_epoch' = ft_epoch + 1
    /\ ft_log' = Append(ft_log,
                        [trainable |-> compiled.trainable,
                         flags |-> [i \in 1..Len(layers) |-> layers[i].trainable],
                         learning_rate |-> compiled.learning_rate])
    /\ UNCHANGED <<layers, learning_rate, compiled, ft_pc, ft_i, ft_epochs>>

\* lines 722-724: the fit has run its epochs
FineTuneReturn ==
    /\ UNCHANGED notFt
    /\ UNCHANGED trainCall
    /\ ft_pc = "fit"
    /\ ft_epoch = ft_epochs
    /\ ft_pc' = "returned"
    /\ UNCHANGED <<layers, learning_rate, compiled, ft_i, ft_epochs, ft_epoch,
                   ft_log>>

\* the model object as a record of what the calls share
ModelObject == [layers |-> layers, learning_rate |-> learning_rate,
                compiled |-> compiled]

\* variant: train_CNN compiles the model anew with the default optimizer
train_CNN_recompiling(landmarks_detection_model) ==
    [landmarks_detection_model EXCEPT
         !.learning_rate = DefaultLR,
         !.compiled = Compile(landmarks_detection_model.layers, DefaultLR)]

\* lines 613-645: train_CNN hands the model to fit as it is; it sets no
\* trainable flag and compiles nothing
train_CNN(landmarks_detection_model) == landmarks_detection_model

\* train_CNN is called on the model object fine_tune_CNN has returned from
TrainCnnCall ==
    /\ UNCHANGED notFt
    /\ ft_pc = "returned"
    /\ tc_runs < MaxRuns
    /\ \E n \in 0..MaxFtEpochs : tc_epochs' = n
    /\ tc_epoch' = 0
    /\ layers' = train_CNN(ModelObject).layers
    /\ learning_rate' = train_CNN(ModelObject).learning_rate
    /\ compiled' = train_CNN(ModelObject).compiled
    /\ ft_pc' = "train"
    /\ UNCHANGED <<ft_i, ft_epochs, ft_epoch, ft_log, tc_runs, tc_log>>

\* line 643: one epoch of the fit, run with what the last compile fixed
TrainCnnEpoch ==
    /\ UNCHANGED notFt
    /\ ft_pc = "train"
    /\ tc_epoch < tc_epochs
    /\ tc_epoch' = tc_epoch + 1
    /\ tc_log' = tc_log \cup
                     {[trainable |-> compiled.trainable,
                       flags |-> [i \in 1..Len(layers) |-> layers[i].trainable],
                       learning_rate |-> compiled.learning_rate]}
    /\ UNCHANGED <<layers, learning_rate, compiled, ft_pc, ft_i, ft_epochs,
                   ft_epoch, ft_log, tc_epochs, tc_runs>>

\* lines 643-645: the fit has run its epochs
TrainCnnReturn ==
    /\ UNCHANGED notFt
    /\ ft_pc = "train"
    /\ tc_epoch = tc_epochs
    /\ tc_runs' = tc_runs + 1
    /\ ft_pc' = "returned"
    /\ UNCHANGED <<layers, learning_rate, compiled, ft_i, ft_epochs, ft_epoch,
                   ft_log, tc_epochs, tc_epoch, tc_log>>

\* ------------------------------------------------------------------------
\* The event loop of the graphical interface
\* ------------------------------------------------------------------------
\* the contours of the contour model, and the choices of the -TARGET_CONTOUR-
\* element
contour_names == {"C1", "C2"}
ContourChoices == contour_names \cup {"None"}

\* the image positions a click in the graph converts to
GuiClicks == {<<1, 1>>, <<2, 3>>}

\* a landmark without a position: nan in df_landmarks
Nan == <<>>

\* the data folders a project can have on disk
DataFolders ==
    {[exists |-> FALSE, listing |-> {}]}
        \cup {[exists |-> TRUE, listing |-> s] : s \in SUBSET (1..MaxListing)}

\* the messages the handlers write to the -PRINT- element
NoDataMessage == "No training and validation data to continue the training"
PositionMessage == "Position of landmark set"
EditingLandmarkMessage == "You are currently editing the position of landmark"
EditingContourMessage == "Editing the contour"

\* the dictionary at the start of the session
SharedAtStart ==
    [curr_landmark |-> "None", curr_contour |-> "None",
     prev_landmark |-> "None", curr_image |-> FALSE,
     contour_manual_pts |-> <<>>]

\* what the record of the last event holds for a handler that did nothing
Handled(name) ==
    [event |-> name, launched |-> FALSE, printed |-> "nothing",
     wrote |-> FALSE, appended |-> FALSE]

\* variant: the landmark button leaves the selected contour alone
SelectLandmarkKeepContour(sh, name) ==
    [sh EXCEPT !.curr_landmark = name, !.prev_landmark = name]

\* lines 406-427: a landmark button selects its landmark and deselects the
\* contour
SelectLandmark(sh, name) ==
    [sh EXCEPT !.curr_landmark = name, !.curr_contour = "None",
               !.prev_landmark = name]

\* lines 330-347: the event Ctrl+2 turns into: the landmark after the
\* current one, the first one after the last or without a current one; the
\* event stays as it is when no project is loaded
IndexOf(name) == CHOOSE i \in 1..Len(list_landmarks) : list_landmarks[i] = name

CycledEvent ==
    IF list_landmarks = <<>> THEN "2"
    ELSE IF shared.curr_landmark # "None"
         THEN IF IndexOf(shared.curr_landmark) = Len(list_landmarks)
              THEN list_landmarks[1]
              ELSE list_landmarks[IndexOf(shared.curr_landmark) + 1]
         ELSE list_landmarks[1]

\* lines 349-373: a click in the graph
GraphWrites(sh) ==
    sh.curr_image /\ sh.curr_contour = "None" /\ sh.curr_landmark # "None"

GraphAppends(sh) == sh.curr_image /\ sh.curr_contour # "None"

\* lines 456-471: deselect the landmark, if one is selected, and the contour
SelectNoLmk(sh) ==
    [sh EXCEPT !.curr_landmark = "None",
               !.prev_landmark = IF sh.curr_landmark # "None" THEN "None" ELSE @,
               !.curr_contour = "None"]

\* lines 476-495: select the chosen contour and deselect the landmark
TargetContour(sh, selected_contour) ==
    [sh EXCEPT !.curr_contour = selected_contour,
               !.curr_landmark = "None",
               !.prev_landmark = IF sh.curr_landmark # "None" THEN "None" ELSE @]

\* lines 513-528
EditContourStart(sh) ==
    [sh EXCEPT !.contour_manual_pts = <<>>, !.curr_landmark = "None",
               !.prev_landmark = "None"]

\* lines 530-541 and 544-553: with a contour selected, deselect it and drop
\* the clicked points
EditContourStop(sh) ==
    IF sh.curr_contour # "None"
    THEN [sh EXCEPT !.curr_contour = "None", !.contour_manual_pts = <<>>]
    ELSE sh

\* lines 497-509
RemoveContour(sh) ==
    IF sh.curr_contour # "None" THEN [sh EXCEPT !.curr_contour = "None"] ELSE sh

\* lines 72-124: -LOAD-PROJECT- reads the tables, the landmark names and
\* opens the first image
LoadProject ==
    /\ UNCHANGED notGui
    /\ list_landmarks' = LandmarkOrder
    /\ shared' = [shared EXCEPT !.curr_image = TRUE]
    /\ last_event' = Handled("-LOAD-PROJECT-")
    /\ UNCHANGED <<lmk_positions, train_folder, val_folder, print_text>>

\* lines 406-443: the button of a landmark is pressed
LandmarkButton ==
    /\ UNCHANGED notGui
    /\ \E i \in 1..Len(list_landmarks) :
           shared' = SelectLandmark(shared, list_landmarks[i])
    /\ print_text' = EditingLandmarkMessage
    /\ last_event' = [Handled("landmark") EXCEPT !.printed = EditingLandmarkMessage]
    /\ UNCHANGED <<list_landmarks, lmk_positions, train_folder, val_folder>>

\* lines 330-347, then 406-443: Ctrl+2
CtrlTwo ==
    /\ UNCHANGED notGui
    /\ IF list_landmarks # <<>>
       THEN /\ shared' = SelectLandmark(shared, CycledEvent)
            /\ print_text' = EditingLandmarkMessage
            /\ last_event' = [Handled("Control-2") EXCEPT
                                  !.printed = EditingLandmarkMessage]
       ELSE /\ last_event' = Handled("Control-2")
            /\ UNCHANGED <<shared, print_text>>
    /\ UNCHANGED <<list_landmarks, lmk_positions, train_folder, val_folder>>

\* lines 349-373: -GRAPH-
GraphClick ==
    /\ UNCHANGED notGui
    /\ GraphAppends(shared) => Len(shared.contour_manual_pts) < MaxPts
    /\ \E xy \in GuiClicks :
           /\ lmk_positions' =
                  IF GraphWrites(shared)
                  THEN [lmk_positions EXCEPT ![shared.curr_landmark] = xy]
                  ELSE lmk_positions
           /\ shared' =
                  IF GraphAppends(shared)
                  THEN [shared EXCEPT !.contour_manual_pts = Append(@, xy)]
                  ELSE shared
    /\ print_text' = IF GraphWrites(shared) THEN PositionMessage ELSE print_text
    /\ last_event' = [Handled("-GRAPH-") EXCEPT
                          !.wrote = GraphWrites(shared),
                          !.appended = GraphAppends(shared),
                          !.printed = IF GraphWrites(shared)
                                      THEN PositionMessage ELSE "nothing"]
    /\ UNCHANGED <<list_landmarks, train_folder, val_folder>>

\* lines 456-471: -SELECT_NO_LMK-
SelectNoLmkEvent ==
    /\ UNCHANGED notGui
    /\ list_landmarks # <<>>
    /\ shared' = SelectNoLmk(shared)
    /\ print_text' = ""
    /\ last_event' = [Handled("-SELECT_NO_LMK-") EXCEPT !.printed = ""]
    /\ UNCHANGED <<list_landmarks, lmk_positions, train_folder, val_folder>>

\* lines 473-495: -TARGET_CONTOUR-
TargetContourEvent ==
    /\ UNCHANGED notGui
    /\ list_landmarks # <<>>
    /\ \E selected_contour \in ContourChoices :
           shared' = TargetContour(shared, selected_contour)
    /\ print_text' = ""
    /\ last_event' = [Handled("-TARGET_CONTOUR-") EXCEPT !.printed = ""]
    /\ UNCHANGED <<list_landmarks, lmk_positions, train_folder, val_folder>>

\* lines 497-509: -REMOVE_CONTOUR-
RemoveContourEvent ==
    /\ UNCHANGED notGui
    /\ list_landmarks # <<>>
    /\ shared' = RemoveContour(shared)
    /\ print_text' = IF shared.curr_contour # "None" THEN "" ELSE print_text
    /\ last_event' = [Handled("-REMOVE_CONTOUR-") EXCEPT
                          !.printed = IF shared.curr_contour # "None"
                                      THEN "" ELSE "nothing"]
    /\ UNCHANGED <<list_landmarks, lmk_positions, train_folder, val_folder>>

\* lines 513-528: -EDIT_CONTOUR_START-
EditContourStartEvent ==
    /\ UNCHANGED notGui
    /\ list_landmarks # <<>>
    /\ shared' = EditContourStart(shared)
    /\ print_text' = EditingContourMessage
    /\ last_event' = [Handled("-EDIT_CONTOUR_START-") EXCEPT
                          !.printed = EditingContourMessage]
    /\ UNCHANGED <<list_landmarks, lmk_positions, train_folder, val_folder>>

\* lines 530-553: -EDIT_CONTOUR_END- and -EDIT_CONTOUR_CANCEL-
EditContourStopEvent ==
    /\ UNCHANGED notGui
    /\ list_landmarks # <<>>
    /\ shared' = EditContourStop(shared)
    /\ print_text' = IF shared.curr_contour # "None" THEN "" ELSE print_text
    /\ \E name \in {"-EDIT_CONTOUR_END-", "-EDIT_CONTOUR_CANCEL-"} :
           last_event' = [Handled(name) EXCEPT
                             !.printed = IF shared.curr_contour # "None"
                                         THEN "" ELSE "nothing"]
    /\ UNCHANGED <<list_landmarks, lmk_positions, train_folder, val_folder>>

\* lines 239-241: both folders are directories and os.listdir returns an
\* empty list for each
ContinueLaunches(train, val) ==
    train.exists /\ val.exists /\ train.listing = {} /\ val.listing = {}

\* lines 239 and 242-243: the else of the test on the directories
ContinuePrints(train, val) == ~(train.exists /\ val.exists)

\* lines 234-243: -CNN-CONTINUE-TRAIN-
ContinueTrainEvent ==
    /\ UNCHANGED notGui
    /\ print_text' = IF ContinuePrints(train_folder, val_folder)
                     THEN NoDataMessage ELSE print_text
    /\ last_event' = [Handled("-CNN-CONTINUE-TRAIN-") EXCEPT
                          !.launched = ContinueLaunches(train_folder, val_folder),
                          !.printed = IF ContinuePrints(train_folder, val_folder)
                                      THEN NoDataMessage ELSE "nothing"]
    /\ UNCHANGED <<shared, list_landmarks, lmk_positions, train_folder,
                   val_folder>>

\* ------------------------------------------------------------------------
\* Specifications
\* ------------------------------------------------------------------------
\* no build is in progress
NoAugmentedImage == [of |-> FileName(0), ops |-> <<>>]

BuildIdle ==
    /\ aug_angle = 0
    /\ aug_zoom = 0
    /\ augmented_image = NoAugmentedImage
    /\ df_landmarks = <<>>
    /\ df_files = <<>>
    /\ shares = {}
    /\ n_data_augmentation = 0
    /\ binning = 0
    /\ test_size = 0
    /\ train_dir = AbsentDir
    /\ val_dir = AbsentDir
    /\ bpc = "idle"
    /\ build_error = "none"
    /\ df_landmarks_copy = <<>>
    /\ df_landmarks_val = <<>>
    /\ df_landmarks_train = <<>>
    /\ todo = <<>>
    /\ aug_k = 0

\* no monitor has been constructed
TrainIdle ==
    /\ nb_epochs = 0
    /\ save_freq = DefaultSaveFreq
    /\ model_name = "cnn"
    /\ folder = "proj"
    /\ epochs_left = 0
    /\ filepath = InitFilepath(folder, model_name)
    /\ metrics = <<>>
    /\ previous_metrics = <<>>
    /\ current_epoch = 0
    /\ model_to_save = <<>>
    /\ tpc = "idle"
    /\ epoch = 0
    /\ model = 0
    /\ logs = <<>>
    /\ history = <<>>
    /\ train_error = "none"
    /\ disk = NoFiles
    /\ saves = <<>>

\* no geometric transform has been called
GeoIdle ==
    /\ geo_call = [fn |-> "none"]
    /\ geo_ret = [status |-> "none"]

\* predict_landmarks has not been called
PredIdle ==
    /\ pred_call = [shapes |-> <<>>, model_shape |-> [h |-> 0, w |-> 0],
                    train_predicts |-> <<>>]
    /\ pred_pc = "idle"
    /\ pred_images = <<>>
    /\ pred_image = [bound |-> FALSE, shape |-> [h |-> 0, w |-> 0]]
    /\ prediction = <<>>
    /\ df_pred_lmk = <<>>
    /\ pred_error = "none"

\* no launcher has been called
LaunchIdle ==
    /\ l_kind = "none"
    /\ l_train = <<>>
    /\ l_val = <<>>
    /\ l_pc = "idle"
    /\ l_train_ret = [status |-> "none"]
    /\ l_val_ret = [status |-> "none"]
    /\ l_error = "none"
    /\ l_threads = <<>>

\* fine_tune_CNN has not been called
FtIdle ==
    /\ layers = <<>>
    /\ learning_rate = 0
    /\ compiled = [status |-> "none"]
    /\ ft_pc = "idle"
    /\ ft_i = 0
    /\ ft_epochs = 0
    /\ ft_epoch = 0
    /\ ft_log = <<>>
    /\ tc_epochs = 0
    /\ tc_epoch = 0
    /\ tc_runs = 0
    /\ tc_log = {}

\* the interface is not running
GuiIdle ==
    /\ shared = SharedAtStart
    /\ list_landmarks = <<>>
    /\ lmk_positions = <<>>
    /\ train_folder = [exists |-> FALSE, listing |-> {}]
    /\ val_folder = [exists |-> FALSE, listing |-> {}]
    /\ print_text = ""
    /\ last_event = Handled("")

\* the state at the call of training_data_preprocessing
BuildInit ==
    /\ GuiIdle
    /\ TrainIdle
    /\ GeoIdle
    /\ PredIdle
    /\ LaunchIdle
    /\ FtIdle
    /\ df_landmarks \in CallerTables
    /\ aug_angle = 0
    /\ aug_zoom = 0
    /\ augmented_image = NoAugmentedImage
    /\ df_files = FilesOf(df_landmarks)
    /\ shares = {}
    /\ n_data_augmentation \in 0..MaxAug
    /\ binning \in Binnings
    /\ test_size \in TestSizes
    /\ train_dir \in {AbsentDir, StaleDir}
    /\ val_dir \in {AbsentDir, StaleDir}
    /\ bpc = "mkdir"
    /\ build_error = "none"
    /\ df_landmarks_copy = <<>>
    /\ df_landmarks_val = <<>>
    /\ df_landmarks_train = <<>>
    /\ todo = <<>>
    /\ aug_k = 0

\* the state after WindowCallback.__init__, before fit is called
TrainInit ==
    /\ GuiIdle
    /\ BuildIdle
    /\ GeoIdle
    /\ PredIdle
    /\ LaunchIdle
    /\ FtIdle
    /\ nb_epochs \in 0..MaxEpochs
    /\ save_freq \in SaveFreqs
    /\ model_name \in ModelNames
    /\ folder = "proj"
    /\ epochs_left = nb_epochs
    /\ filepath = InitFilepath(folder, model_name)
    /\ metrics = <<>>
    /\ previous_metrics = <<>>
    /\ current_epoch = 0
    /\ model_to_save = <<>>
    /\ tpc = "constructed"
    /\ epoch = 0
    /\ model = 0
    /\ logs = <<>>
    /\ history = <<>>
    /\ train_error = "none"
    /\ disk \in {NoFiles, Save(NoFiles, InitFilepath(folder, model_name), 0)}
    /\ saves = <<>>

\* the state at the call of one of the transforms
GeoInit ==
    /\ GuiIdle
    /\ BuildIdle
    /\ TrainIdle
    /\ PredIdle
    /\ LaunchIdle
    /\ FtIdle
    /\ geo_call \in GeoCalls
    /\ geo_ret = [status |-> "pending"]

\* the state at the call of one of the launchers
LaunchInit ==
    /\ GuiIdle
    /\ BuildIdle
    /\ TrainIdle
    /\ GeoIdle
    /\ PredIdle
    /\ FtIdle
    /\ l_kind \in {"train", "fine_tune"}
    /\ l_train \in FolderTables
    /\ l_val \in FolderTables
    /\ l_pc = "import_train"
    /\ l_train_ret = [status |-> "none"]
    /\ l_val_ret = [status |-> "none"]
    /\ l_error = "none"
    /\ l_threads = <<>>

\* the state at the call of fine_tune_CNN: a compiled model
FtInit ==
    /\ GuiIdle
    /\ BuildIdle
    /\ TrainIdle
    /\ GeoIdle
    /\ PredIdle
    /\ LaunchIdle
    /\ layers \in FtModels
    /\ learning_rate = DefaultLR
    /\ compiled = Compile(layers, DefaultLR)
    /\ ft_pc = "freeze"
    /\ ft_i = 0
    /\ ft_epochs \in 0..MaxFtEpochs
    /\ ft_epoch = 0
    /\ ft_log = <<>>
    /\ tc_epochs = 0
    /\ tc_epoch = 0
    /\ tc_runs = 0
    /\ tc_log = {}

\* the state at the call of predict_landmarks
PredInit ==
    /\ GuiIdle
    /\ BuildIdle
    /\ TrainIdle
    /\ GeoIdle
    /\ LaunchIdle
    /\ FtIdle
    /\ pred_call \in PredCalls
    /\ pred_pc = "load"
    /\ pred_images = <<>>
    /\ pred_image = [bound |-> FALSE, shape |-> [h |-> 0, w |-> 0]]
    /\ prediction = <<>>
    /\ df_pred_lmk = <<>>
    /\ pred_error = "none"

BuildNext ==
    \/ BuildFolders
    \/ BuildClean
    \/ BuildSplit
    \/ BuildTrainFile
    \/ BuildAugment
    \/ BuildValFile
    \/ BuildSave

TrainNext ==
    \/ on_train_begin
    \/ FitEpoch
    \/ on_epoch_end
    \/ on_train_end

GeoNext ==
    \/ CallScaleLandmarks
    \/ CallLandmarksDownsample
    \/ CallImageDownsample
    \/ CallRotateImage
    \/ CallScaleImage

PredNext ==
    \/ PredLoadImage
    \/ PredRescale
    \/ PredSave

LaunchNext ==
    \/ ImportTrainData
    \/ ImportValData
    \/ MakeCallbacks
    \/ StartThread
    \/ WorkerFinish

\* the state at the start of start_image_registration_GUI, over the data
\* folders the project can have
GuiInit ==
    /\ BuildIdle
    /\ TrainIdle
    /\ GeoIdle
    /\ PredIdle
    /\ LaunchIdle
    /\ FtIdle
    /\ shared = SharedAtStart
    /\ list_landmarks = <<>>
    /\ lmk_positions = [l \in {"L1", "L2"} |-> Nan]
    /\ train_folder \in DataFolders
    /\ val_folder \in DataFolders
    /\ print_text = ""
    /\ last_event = Handled("")

GuiNext ==
    \/ LoadProject
    \/ LandmarkButton
    \/ CtrlTwo
    \/ GraphClick
    \/ SelectNoLmkEvent
    \/ TargetContourEvent
    \/ RemoveContourEvent
    \/ EditContourStartEvent
    \/ EditContourStopEvent
    \/ ContinueTrainEvent

FtNext ==
    \/ FreezeLayer
    \/ Recompile
    \/ FineTuneEpoch
    \/ FineTuneReturn
    \/ TrainCnnCall
    \/ TrainCnnEpoch
    \/ TrainCnnReturn

\* a call of training_data_preprocessing
BuildSpec == BuildInit /\ [][BuildNext]_vars

\* a call of fit with a WindowCallback attached
TrainSpec == TrainInit /\ [][TrainNext]_vars

\* one call of one of the transforms
GeoSpec == GeoInit /\ [][GeoNext]_vars

\* a call of predict_landmarks
PredictSpec == PredInit /\ [][PredNext]_vars

\* a call of train_CNN_with_window_callback or of
\* fine_tune_CNN_with_window_callback
LaunchSpec == LaunchInit /\ [][LaunchNext]_vars

\* a call of fine_tune_CNN
FineTuneSpec == FtInit /\ [][FtNext]_vars

\* a session of the graphical interface
GuiSpec == GuiInit /\ [][GuiNext]_vars

Init ==
    \/ BuildInit \/ TrainInit \/ GeoInit \/ PredInit \/ LaunchInit \/ FtInit
    \/ GuiInit

Next ==
    \/ BuildNext \/ TrainNext \/ GeoNext \/ PredNext \/ LaunchNext \/ FtNext
    \/ GuiNext

Spec == Init /\ [][Next]_vars

\* ------------------------------------------------------------------------
\* Properties of the dataset build (BuildSpec)
\* ------------------------------------------------------------------------
\* the file names of the fully-annotated rows of the caller's table
Pool == {df_landmarks[i].file : i \in {j \in 1..Len(df_landmarks) :
                                           Complete(df_landmarks[j])}}

\* the file names of the original (not augmented) rows of a table
Originals(df) == {df[i].file : i \in {j \in 1..Len(df) : df[j].file.prefix = <<>>}}

\* the tables persisted by a completed build
TrainTable == train_dir.csv[1]
ValTable == val_dir.csv[1]

\* C1: after a completed build no file name of the Validation table is the
\* file name of an original row of the Train table.
C1_TrainValDisjoint ==
    bpc = "done" => FileSet(ValTable) \cap Originals(TrainTable) = {}

\* C2: after a completed build every fully-annotated sample of the caller's
\* table is in exactly one of the Validation table and the original rows of
\* the Train table.
C2_TrainIsRemainder ==
    bpc = "done" =>
        \A f \in Pool : (f \in FileSet(ValTable)) # (f \in Originals(TrainTable))

\* C3 as stated: with N fully-annotated samples the Train table has
\* round((1-f)*N)*(k+1) rows and the Validation table round(f*N) rows.
C3_CountsRounded ==
    bpc = "done" =>
        /\ Len(ValTable) = RoundHalfEven(test_size * Cardinality(Pool), FracDen)
        /\ Len(TrainTable) =
              RoundHalfEven((FracDen - test_size) * Cardinality(Pool), FracDen)
                 * (n_data_augmentation + 1)

\* C3 as amended: the Validation table has int(f*N) rows (the product
\* truncated) and the Train table (N - int(f*N))*(k+1) rows.
C3_CountsTruncated ==
    bpc = "done" =>
        LET N == Cardinality(Pool)
            nval == (test_size * N) \div FracDen
        IN  /\ Len(ValTable) = nval
            /\ Len(TrainTable) = (N - nval) * (n_data_augmentation + 1)

\* a build completed in which int(f*N) differs from round(f*N) and
\* augmented rows were added
C3_Witness ==
    /\ bpc = "done"
    /\ Cardinality(Pool) = 3
    /\ test_size = 10
    /\ n_data_augmentation = 2
    /\ Len(TrainTable) = 6
    /\ Len(ValTable) = 1

\* C4: no sample with a missing landmark is a row of the Train or the
\* Validation table (in memory or persisted by this build), the origin of
\* an augmented row or an image written to an output folder, and the build
\* never ends on the ValueError a missing cell raises.
C4_IncompleteDropped ==
    bpc \notin {"mkdir", "dropna"} =>
        /\ \A df \in {df_landmarks_copy, df_landmarks_train, df_landmarks_val} :
              \A i \in 1..Len(df) : FileName(df[i].file.base) \in Pool
        /\ \A dir \in {train_dir, val_dir} :
              /\ \A f \in dir.files : FileName(f.base) \in Pool
              /\ \A i \in 1..Len(dir.csv) : \A j \in 1..Len(dir.csv[i]) :
                    FileName(dir.csv[i][j].file.base) \in Pool
        /\ build_error # "ValueError"

\* a build over a table with an incomplete row completed with binning and
\* augmentation
C4_Witness ==
    /\ bpc = "done"
    /\ \E i \in 1..Len(df_landmarks) : ~Complete(df_landmarks[i])
    /\ binning # 0
    /\ n_data_augmentation > 0
    /\ Len(TrainTable) > 1
    /\ Len(ValTable) > 0

\* ------------------------------------------------------------------------
\* Properties of the checkpoint policy (TrainSpec)
\* ------------------------------------------------------------------------
\* epoch n of a validation-loss history improved on the epoch before it
ImprovingEpoch(h, n) == n > 1 /\ h[n] < h[n - 1]

\* the last epoch of a non-empty history that is epoch 1 or improved on
\* the epoch before it
LastCapture(h) ==
    CHOOSE n \in 1..Len(h) :
        /\ n = 1 \/ ImprovingEpoch(h, n)
        /\ \A m \in (n + 1)..Len(h) : ~ImprovingEpoch(h, m)

\* the weights of the retained snapshot
SnapshotWeights == WeightsOf(model_to_save[1], model)

\* the epochs after which on_epoch_end saved to disk
EpochSaves == {saves[i].epoch : i \in {j \in 1..Len(saves) :
                                          saves[j].by = "on_epoch_end"}}

\* C5: the on_epoch_end of the first completed epoch finds no snapshot and
\* leaves a snapshot holding the weights of the current model, whatever the
\* validation loss of that epoch; it makes no comparison, so it cannot fail
\* on the empty previous metrics.
C5_BaselineCapture ==
    [][(tpc = "epoch_end" /\ current_epoch = 0) =>
          /\ model_to_save = <<>>
          /\ model_to_save' # <<>>
          /\ WeightsOf(model_to_save'[1], model') = model
          /\ tpc' = "fitting"
          /\ train_error' = "none"]_vars

\* the first epoch completed with the highest loss and was captured
C5_Witness ==
    /\ tpc = "fitting"
    /\ current_epoch = 1
    /\ history = <<MaxLoss>>
    /\ model_to_save # <<>>
    /\ SnapshotWeights = 1

\* C6: whenever the monitor has handled every completed epoch, the retained
\* snapshot holds the weights of the last epoch that is epoch 1 or had a
\* validation loss strictly lower than the epoch before it: an epoch n > 1
\* replaces the snapshot iff loss(n) < loss(n-1), and the snapshot keeps the
\* weights of its capturing epoch while later epochs train the live model.
C6_SnapshotIsLastImproving ==
    (tpc \in {"fitting", "done"} /\ current_epoch >= 1) =>
        SnapshotWeights = LastCapture(history)

\* losses [0.5, 0.5, 0.3, 0.3, 0.6]: after epoch 5 the snapshot still holds
\* the weights of epoch 3
C6_Witness ==
    /\ tpc = "fitting"
    /\ history = <<2, 2, 1, 1, 3>>
    /\ current_epoch = 5
    /\ SnapshotWeights = 3
    /\ model = 5

\* C7 as stated: after each completed epoch n the snapshot is saved to disk
\* exactly when (nb_epochs - n) mod save_freq = 0.
C7_SaveEveryDueEpoch ==
    tpc \in {"fitting", "done"} =>
        \A n \in 1..current_epoch :
            (n \in EpochSaves) <=> ((nb_epochs - n) % save_freq = 0)

\* C7 as amended: after each completed epoch n the snapshot is saved to
\* disk exactly when n > 1 and (nb_epochs - n) mod save_freq = 0, and what
\* is saved is the retained snapshot, not the live model.
C7_SaveEveryDueEpochAfterFirst ==
    tpc \in {"fitting", "done"} =>
        /\ \A n \in 1..current_epoch :
              (n \in EpochSaves) <=> (n > 1 /\ (nb_epochs - n) % save_freq = 0)
        /\ \A i \in 1..Len(saves) :
              saves[i].by = "on_epoch_end" =>
                 saves[i].weights = LastCapture(SubSeq(history, 1, saves[i].epoch))

\* 5 epochs with save_freq 2: saves after epochs 3 and 5 only, the one after
\* epoch 5 writing the snapshot of epoch 3
C7_Witness ==
    /\ tpc = "fitting"
    /\ nb_epochs = 5
    /\ save_freq = 2
    /\ current_epoch = 5
    /\ history = <<2, 2, 1, 1, 3>>
    /\ EpochSaves = {3, 5}
    /\ disk[filepath] = 3

\* C8: when the run has ended, the last save is the one of on_train_end, it
\* is the only one of on_train_end, it wrote the weights of the live model
\* to the checkpoint path, and the file holds them.
C8_TrainEndSavesLive ==
    tpc = "done" =>
        /\ saves # <<>>
        /\ saves[Len(saves)].by = "on_train_end"
        /\ saves[Len(saves)].weights = model
        /\ saves[Len(saves)].path = filepath
        /\ \A i \in 1..(Len(saves) - 1) : saves[i].by = "on_epoch_end"
        /\ filepath \in DOMAIN disk
        /\ disk[filepath] = model

\* a run ended whose last epoch did not improve and whose cadence saved the
\* older snapshot right before the end
C8_Witness ==
    /\ tpc = "done"
    /\ nb_epochs = 3
    /\ SnapshotWeights = 1
    /\ Len(saves) = 2
    /\ saves[1].weights = 1
    /\ disk[filepath] = 3

C10_SinglePath ==
    /\ \A i \in 1..Len(saves) : saves[i].path = <<folder, model_name, ".h5">>
    /\ DOMAIN disk \subseteq {<<folder, model_name, ".h5">>}
    /\ saves # <<>> =>
          disk[<<folder, model_name, ".h5">>] = saves[Len(saves)].weights

\* a run ended after two periodic saves and the final save, over a file
\* that has been rewritten each time
C10_Witness ==
    /\ tpc = "done"
    /\ Len(saves) = 3
    /\ saves[1].weights # saves[3].weights
    /\ Cardinality(DOMAIN disk) = 1

\* ------------------------------------------------------------------------
\* The transforms
\* ------------------------------------------------------------------------
DownsampleReturned ==
    /\ geo_call.fn = "landmarks_downsample"
    /\ geo_ret.status = "returned"

\* the coordinates passed for a landmark and the coordinates stored for it
PassedCoord(l) == geo_call.df_landmarks[1].lmk[l]
StoredCoord(l) == geo_ret.value[1].lmk[l]

\* C11: after landmarks_downsample, the stored coordinates of every landmark
\* (x, y) are (round(x / factor), round(y / factor)).
C11_StoredIsRounded ==
    DownsampleReturned =>
        \A l \in Landmarks :
            StoredCoord(l) = <<RoundHalfEven(PassedCoord(l)[1], geo_call.binning),
                               RoundHalfEven(PassedCoord(l)[2], geo_call.binning)>>

\* C11, as the code has it: after landmarks_downsample on non-negative
\* integer coordinates and a factor >= 1, the stored coordinates of every
\* landmark (x, y) are the quotients truncated to integers,
\* (floor(x / factor), floor(y / factor)).
C11_StoredIsTruncated ==
    DownsampleReturned =>
        \A l \in Landmarks :
            /\ StoredCoord(l)[1] * geo_call.binning <= PassedCoord(l)[1]
            /\ PassedCoord(l)[1] < (StoredCoord(l)[1] + 1) * geo_call.binning
            /\ StoredCoord(l)[2] * geo_call.binning <= PassedCoord(l)[2]
            /\ PassedCoord(l)[2] < (StoredCoord(l)[2] + 1) * geo_call.binning

\* a coordinate whose quotient has a fractional part of at least one half has
\* been downsampled: rounding and truncation differ on it
C11_Witness ==
    /\ DownsampleReturned
    /\ geo_call.binning = 2
    /\ PassedCoord("L1") = <<3, 5>>
    /\ StoredCoord("L1") = <<1, 2>>


\* ------------------------------------------------------------------------
\* predict_landmarks
\* ------------------------------------------------------------------------
\* C12: when predict_landmarks has written its table, the coordinates stored
\* for every landmark of every image i are the model-space prediction
\* multiplied by width_i / model_width and height_i / model_height, the
\* factors taken from the native size of image i itself.
C12_RescaledPerImage ==
    pred_pc = "done" =>
        \A i \in 1..Len(pred_call.shapes) : \A l \in Landmarks :
            df_pred_lmk[i][l] =
                <<(pred_call.train_predicts[i][l][1] * pred_call.shapes[i].w)
                      \div pred_call.model_shape.w,
                  (pred_call.train_predicts[i][l][2] * pred_call.shapes[i].h)
                      \div pred_call.model_shape.h>>


\* ------------------------------------------------------------------------
\* import_data and the launchers
\* ------------------------------------------------------------------------
NonUniform(shapes) == \E i \in 1..Len(shapes) : shapes[i] # shapes[1]

\* import_data has returned None: no array comes with it
NoneSignal(ret) == ret.status = "None" /\ DOMAIN ret = {"status"}

\* C13: when import_data has run on a table in which at least one image has
\* a shape different from the first image's, its result is None: it has not
\* raised and it has returned no array.
C13_NonUniformReturnsNone ==
    /\ (l_train_ret.status # "none" /\ NonUniform(ShapesOf(l_train)))
           => NoneSignal(l_train_ret)
    /\ (l_val_ret.status # "none" /\ NonUniform(ShapesOf(l_val)))
           => NoneSignal(l_val_ret)

\* import_data has run on a validation table whose second image differs
\* from the first
C13_Witness ==
    /\ Len(l_val) = 2
    /\ l_val[2].shape # l_val[1].shape
    /\ l_val_ret.status = "None"


\* C15: a launcher called on an empty validation table (the validation draw
\* of the build was empty) and a loadable training table does not end with
\* an exception.
C15_EmptyValidationTolerated ==
    (/\ l_val = <<>>
     /\ l_train_ret.status = "arrays"
     /\ l_val_ret.status # "none")
        => l_error = "none"

\* C17: once a launcher called on loadable training and validation tables
\* has ended, it has returned to its caller and has started exactly one
\* thread, a daemon thread whose fit has the WindowCallback attached.
C17_OneDetachedThread ==
    (/\ l_pc \in {"returned", "crashed"}
     /\ l_train_ret.status = "arrays"
     /\ l_val_ret.status = "arrays")
        => /\ l_pc = "returned"
           /\ Len(l_threads) = 1
           /\ l_threads[1].daemon
           /\ l_threads[1].callbacks = <<"WindowCallback">>


\* ------------------------------------------------------------------------
\* Dataset build: the output folders, the coordinates, the caller's tables
\* ------------------------------------------------------------------------
\* C14: right after step 1 of the build (lines 273-282), whatever folders
\* existed before, the training folder and the validation folder both exist
\* and hold no file of a previous build.
C14_BothFoldersRecreated ==
    bpc = "dropna" =>
        /\ train_dir.exists
        /\ val_dir.exists
        /\ train_dir.files = {}
        /\ val_dir.files = {}
        /\ train_dir.csv = <<>>
        /\ val_dir.csv = <<>>

\* every annotated landmark of the caller's table lies inside its image
InputsInsideImage ==
    \A i \in 1..Len(df_landmarks) : \A l \in Landmarks :
        df_landmarks[i].lmk[l] # NaN =>
            /\ df_landmarks[i].lmk[l][1] \in 0..ImgSize
            /\ df_landmarks[i].lmk[l][2] \in 0..ImgSize

\* C16: after a completed build with binning on landmarks that lie inside
\* their images, every coordinate of the Train table, of original and of
\* augmented rows alike, lies within [0, downsampled_dim] of its axis.
C16_CoordinatesInsideBinnedImage ==
    (bpc = "done" /\ binning # 0 /\ InputsInsideImage) =>
        \A i \in 1..Len(TrainTable) : \A l \in Landmarks :
            /\ TrainTable[i].lmk[l][1] \in 0..BinnedShape(binning).w
            /\ TrainTable[i].lmk[l][2] \in 0..BinnedShape(binning).h

\* ------------------------------------------------------------------------
\* fine_tune_CNN
\* ------------------------------------------------------------------------
Normalization == {i \in 1..Len(layers) : layers[i].kind = "BatchNormalization"}

\* C18: every fine-tuning epoch runs after the freeze and the recompile:
\* once the fit is reached every batch-normalization layer is non-trainable
\* and the model is compiled, with those flags, at learning rate 1e-5; and
\* every epoch that has run has run with no trainable normalization layer
\* and at that learning rate.
C18_FrozenAndRecompiledBeforeFit ==
    /\ ft_pc \in {"fit", "returned"} =>
           /\ \A i \in Normalization :
                  ~layers[i].trainable /\ ~compiled.trainable[i]
           /\ compiled.learning_rate = ReducedLR
    /\ ft_pc \in {"idle", "freeze"} => ft_log = <<>>
    /\ \A k \in 1..Len(ft_log) :
           /\ \A i \in Normalization :
                  ~ft_log[k].trainable[i] /\ ~ft_log[k].flags[i]
           /\ ft_log[k].learning_rate = ReducedLR

\* the model of create_CNN, whose normalization layers were trainable, has
\* been fine-tuned for two epochs
C18_Witness ==
    /\ ft_pc = "returned"
    /\ Len(layers) = Len(create_CNN)
    /\ Len(ft_log) = 2
    /\ Normalization # {}

\* ------------------------------------------------------------------------
\* The transforms on an image without a positive sample
\* ------------------------------------------------------------------------
\* the image a transform was called on, and whether the transform takes the
\* mean of its positive samples
MeanTaken ==
    \/ geo_call.fn \in {"rotate_image", "scale_image"}
    \/ geo_call.fn = "image_downsample" /\ geo_call.normalize

CalledImage == IF geo_call.fn = "image_downsample" THEN geo_call.img
               ELSE geo_call.image

\* C19: a transform that takes the mean of the positive samples and is
\* called on an image without a positive sample fails: it does not return
\* an image.
C19_NoPositiveSampleFails ==
    (/\ MeanTaken
     /\ PositiveSamples(CalledImage) = {}
     /\ geo_ret.status # "pending")
        => geo_ret.status = "raised"

\* ------------------------------------------------------------------------
\* Dataset build: the caller's tables
\* ------------------------------------------------------------------------
\* C20: no step of training_data_preprocessing changes the landmark table or
\* the file table the caller passed: the binned coordinates and the
\* augmented rows go to the local tables only.
C20_CallerTablesUntouched ==
    [][df_landmarks' = df_landmarks /\ df_files' = df_files]_vars

\* a build with binning and augmentation has completed: the Train table
\* holds binned coordinates and augmented rows
C20_Witness ==
    /\ bpc = "done"
    /\ binning # 0
    /\ n_data_augmentation = 2
    /\ Len(TrainTable) = 6
    /\ Originals(TrainTable) # FileSet(TrainTable)
    /\ \A i \in 1..Len(df_landmarks) : df_landmarks[i].file.prefix = <<>>

\* ------------------------------------------------------------------------
\* Dataset build: augmentation
\* ------------------------------------------------------------------------
Abs(v) == IF v < 0 THEN -v ELSE v

\* the integers nearest to num / den (den > 0)
Nearest(num, den) ==
    {c \in {num \div den, num \div den + 1} : 2 * Abs(den * c - num) <= den}

\* q is p turned by a degrees about the centre of an image of that shape,
\* rounded to integers
IsRotated(q, p, shape, a) ==
    /\ q[1] \in Nearest(shape.w + Cos(a) * (2 * p[1] - shape.w)
                                 - Sin(a) * (2 * p[2] - shape.h), 2)
    /\ q[2] \in Nearest(shape.h + Sin(a) * (2 * p[1] - shape.w)
                                 + Cos(a) * (2 * p[2] - shape.h), 2)

\* q is p scaled by z / 1000 about the centre, rounded to integers
IsScaled(q, p, shape, z) ==
    /\ q[1] \in Nearest(1000 * shape.w + z * (2 * p[1] - shape.w), 2000)
    /\ q[2] \in Nearest(1000 * shape.h + z * (2 * p[2] - shape.h), 2000)

\* the cells new are the cells src rotated, rounded, then scaled, rounded
RotatedThenScaled(new, src, shape, a, z) ==
    \A l \in Landmarks :
        \E rx \in Nearest(shape.w + Cos(a) * (2 * src[l][1] - shape.w)
                                   - Sin(a) * (2 * src[l][2] - shape.h), 2),
           ry \in Nearest(shape.h + Sin(a) * (2 * src[l][1] - shape.w)
                                   + Cos(a) * (2 * src[l][2] - shape.h), 2) :
            /\ IsRotated(<<rx, ry>>, src[l], shape, a)
            /\ IsScaled(new[l], <<rx, ry>>, shape, z)

\* the caller's coordinates of a file, binned as the build was asked to
BinnedOriginal(fname) ==
    LET row == FirstRow(df_landmarks, fname)
    IN  [l \in Landmarks |->
            IF binning = 0 THEN row.lmk[l]
            ELSE <<row.lmk[l][1] \div binning, row.lmk[l][2] \div binning>>]

\* the rows of a table derived from the original file of base b
DerivedRows(df, b) ==
    {i \in 1..Len(df) : df[i].file.base = b /\ df[i].file.prefix # <<>>}

\* C21: after a completed build every Validation row is an original sample
\* under its own file name, binned only; every original of the Train table
\* is binned and has exactly n_data_augmentation derived rows, named
\* k_filename for k = 0..n_data_augmentation-1, each one obtained from the
\* binned row of that original by a rotation and a zoom the build can draw.
C21_AugmentationOnTrainOnly ==
    bpc = "done" =>
        /\ \A i \in 1..Len(ValTable) :
              /\ ValTable[i].file.prefix = <<>>
              /\ ValTable[i].file \in Pool
              /\ ValTable[i].lmk = BinnedOriginal(ValTable[i].file)
        /\ \A i \in 1..Len(TrainTable) :
              LET f == TrainTable[i].file
              IN  IF f.prefix = <<>>
                  THEN /\ TrainTable[i].lmk = BinnedOriginal(f)
                       /\ Cardinality(DerivedRows(TrainTable, f.base))
                              = n_data_augmentation
                       /\ \A k \in 0..(n_data_augmentation - 1) :
                              \E j \in DerivedRows(TrainTable, f.base) :
                                  TrainTable[j].file = [prefix |-> <<k>>, base |-> f.base]
                  ELSE /\ FileName(f.base) \in Originals(TrainTable)
                       /\ \E draw \in AugDraws :
                              RotatedThenScaled(TrainTable[i].lmk,
                                                BinnedOriginal(FileName(f.base)),
                                                BinnedShape(binning),
                                                draw[1], draw[2])

\* a build with binning and two augmentations per sample has completed with
\* one Validation row and one Train original
C21_Witness ==
    /\ bpc = "done"
    /\ binning # 0
    /\ n_data_augmentation = 2
    /\ Len(ValTable) = 1
    /\ Len(TrainTable) = 3
    /\ Cardinality(DerivedRows(TrainTable, TrainTable[1].file.base)) = 2

\* C22: every pass of the augmentation loop rotates the image by angle and
\* then scales it by zoom, and the row it adds to the Train table under the
\* derived name holds the landmarks of the source row rotated about the
\* image centre by that angle, rounded, and then scaled about the centre by
\* that zoom, rounded.
C22_LandmarksFollowImage ==
    [][(bpc = "augment" /\ aug_k' = aug_k + 1) =>
          LET new == df_landmarks_train'[Len(df_landmarks_train')]
              src == FirstRow(df_landmarks_train, Head(todo))
          IN  /\ Len(df_landmarks_train') = Len(df_landmarks_train) + 1
              /\ new.file = [prefix |-> <<aug_k>>, base |-> Head(todo).base]
              /\ augmented_image'.of = Head(todo)
              /\ augmented_image'.ops[1] = <<"rotate_image", aug_angle'>>
              /\ augmented_image'.ops[2] = <<"scale_image", aug_zoom'>>
              /\ RotatedThenScaled(new.lmk, src.lmk, BinnedShape(binning),
                                   aug_angle', aug_zoom')]_vars

\* an augmented row made with a quarter turn and zoom 0.7 is the last row
\* of the persisted Train table, and it differs from its original
C22_Witness ==
    /\ bpc = "done"
    /\ aug_angle = 90
    /\ aug_zoom = 700
    /\ Len(TrainTable) > 0
    /\ TrainTable[Len(TrainTable)].file = AugFileName(n_data_augmentation - 1,
                                                        augmented_image.of)
    /\ TrainTable[Len(TrainTable)].lmk # BinnedOriginal(augmented_image.of)

\* ------------------------------------------------------------------------
\* import_data: the arrays
\* ------------------------------------------------------------------------
\* the arrays import_data returned for a table are aligned: one image and
\* one coordinate row per distinct file of the table, in the order the
\* files first occur, the coordinate row of an image holding x then y of
\* every landmark, in vocabulary order, of the first row of that file
Aligned(df, ret) ==
    LET files == {df[i].file : i \in 1..Len(df)}
    IN  /\ Len(ret.X) = Cardinality(files)
        /\ Len(ret.y) = Cardinality(files)
        /\ \A i \in 1..Len(ret.X) :
              /\ ret.X[i].file \in files
              /\ \A j \in 1..Len(ret.X) : i # j => ret.X[i].file # ret.X[j].file
              /\ Len(ret.y[i]) = 2 * Len(LandmarkOrder)
              /\ \E r \in 1..Len(df) :
                    /\ df[r].file = ret.X[i].file
                    /\ \A q \in 1..(r - 1) : df[q].file # ret.X[i].file
                    /\ \A k \in 1..Len(LandmarkOrder) :
                          /\ ret.y[i][2 * k - 1] = df[r].lmk[LandmarkOrder[k]][1]
                          /\ ret.y[i][2 * k] = df[r].lmk[LandmarkOrder[k]][2]
              /\ \A j \in 1..Len(ret.X) :
                    i < j => \E r \in 1..Len(df) :
                                /\ df[r].file = ret.X[i].file
                                /\ \A q \in 1..r : df[q].file # ret.X[j].file

\* C23: when import_data returns arrays for a table of uniform shape, the
\* image array has one entry per distinct file, the coordinate array has
\* one row of 2 * L values per entry, and row i holds the (x, y) pairs, in
\* vocabulary order, of the file whose image is entry i.
C23_ArraysAligned ==
    /\ l_train_ret.status = "arrays" => Aligned(l_train, l_train_ret)
    /\ l_val_ret.status = "arrays" => Aligned(l_val, l_val_ret)

\* arrays were returned for a validation table of two different files
C23_Witness ==
    /\ l_val_ret.status = "arrays"
    /\ Len(l_val) = 2
    /\ l_val[1].file # l_val[2].file
    /\ Len(l_val_ret.y) = 2

\* ------------------------------------------------------------------------
\* predict_landmarks: the written coordinates
\* ------------------------------------------------------------------------
\* C24: every coordinate predict_landmarks writes is the rescaled
\* coordinate rounded to the nearest integer.
C24_WrittenIsRounded ==
    pred_pc = "done" =>
        \A i \in 1..Len(prediction) : \A l \in Landmarks : \A k \in 1..2 :
            df_pred_lmk[i][l][k] =
                RoundHalfEven(prediction[i][l][k].num, prediction[i][l][k].den)

\* C24, as the code has it: every coordinate predict_landmarks writes is
\* the rescaled coordinate truncated to an integer (the rescaled values are
\* not negative here, so the integer just below or equal).
C24_WrittenIsTruncated ==
    pred_pc = "done" =>
        \A i \in 1..Len(prediction) : \A l \in Landmarks : \A k \in 1..2 :
            /\ df_pred_lmk[i][l][k] * prediction[i][l][k].den
                  <= prediction[i][l][k].num
            /\ prediction[i][l][k].num
                  < (df_pred_lmk[i][l][k] + 1) * prediction[i][l][k].den

\* a rescaled coordinate of 123.75 has been written as 123
C24_Witness ==
    /\ pred_pc = "done"
    /\ \E i \in 1..Len(prediction) :
           /\ prediction[i]["L1"][2] = [num |-> 160 * 99, den |-> 128]
           /\ df_pred_lmk[i]["L1"][2] = 123

\* ------------------------------------------------------------------------
\* The transforms at zoom 1.0
\* ------------------------------------------------------------------------
\* C25: scale_landmarks with zoom 1.0 returns the table with every
\* coordinate unchanged; scale_image with zoom 1.0 returns an image of the
\* shape of its argument, into which the scaled image, of that same shape,
\* is pasted whole at offset (0, 0), for even and for odd image sides.
C25_IdentityZoom ==
    /\ (/\ geo_call.fn = "scale_landmarks"
        /\ geo_call.zoom = 1000
        /\ geo_ret.status = "returned")
           => geo_ret.value = geo_call.df_landmarks
    /\ (/\ geo_call.fn = "scale_image"
        /\ geo_call.zoom = 1000
        /\ geo_ret.status = "returned")
           => /\ DOMAIN geo_call.image = PixelPositions(geo_ret.value.shape)
              /\ geo_ret.value.kind = "paste"
              /\ geo_ret.value.at = <<0, 0>>
              /\ geo_ret.value.scaled = geo_ret.value.shape
              /\ geo_ret.value.empty = {}

\* scale_landmarks has run with zoom 1.0 on an image of odd sides
C25_Witness ==
    /\ geo_call.fn = "scale_landmarks"
    /\ geo_call.zoom = 1000
    /\ geo_call.img = [h |-> 3, w |-> 3]
    /\ geo_call.df_landmarks[1].lmk["L1"] = <<2, 5>>
    /\ geo_ret.status = "returned"

\* scale_image has run with zoom 1.0 on an image of odd sides
C25_WitnessImage ==
    /\ geo_call.fn = "scale_image"
    /\ geo_call.zoom = 1000
    /\ geo_ret.status = "returned"
    /\ geo_ret.value.shape = [h |-> 3, w |-> 3]

\* ------------------------------------------------------------------------
\* The launchers on a dataset of non-uniform shape
\* ------------------------------------------------------------------------
\* C26: when import_data has returned None for the training or for the
\* validation table, the launcher ends without an exception and without
\* having started a thread.
C26_NoneSignalChecked ==
    (l_train_ret.status = "None" \/ l_val_ret.status = "None")
        => /\ l_error = "none"
           /\ l_threads = <<>>

\* ------------------------------------------------------------------------
\* WindowCallback: the countdown
\* ------------------------------------------------------------------------
\* C27: throughout a training run epochs_left + current_epoch = nb_epochs
\* and epochs_left is not negative; every on_epoch_end lowers epochs_left by
\* exactly 1 and raises current_epoch by 1; and epochs_left is 0 once
\* on_train_end has run after the last epoch.
C27_Countdown ==
    /\ [](/\ epochs_left + current_epoch = nb_epochs
          /\ epochs_left >= 0
          /\ tpc = "done" => epochs_left = 0)
    /\ [][tpc = "epoch_end" =>
             /\ epochs_left' = epochs_left - 1
             /\ current_epoch' = current_epoch + 1]_vars

\* a run of three epochs has ended
C27_Witness ==
    /\ tpc = "done"
    /\ nb_epochs = 3
    /\ current_epoch = 3
    /\ epochs_left = 0

\* ------------------------------------------------------------------------
\* train_CNN after fine_tune_CNN
\* ------------------------------------------------------------------------
\* C29: every call of train_CNN that follows fine_tune_CNN on the same model
\* object finds, and leaves, every batch-normalization layer non-trainable
\* and the learning rate at 1e-5, and every epoch it runs has run with no
\* trainable normalization layer and at that learning rate.
C29_FreezePersists ==
    /\ (ft_pc = "train" \/ tc_runs > 0) =>
           /\ \A i \in Normalization :
                  ~layers[i].trainable /\ ~compiled.trainable[i]
           /\ learning_rate = ReducedLR
           /\ compiled.learning_rate = ReducedLR
    /\ \A entry \in tc_log :
           /\ \A i \in Normalization :
                  ~entry.trainable[i] /\ ~entry.flags[i]
           /\ entry.learning_rate = ReducedLR

\* the model of create_CNN has been fine-tuned and then trained twice more,
\* the second time for two epochs
C29_Witness ==
    /\ ft_pc = "returned"
    /\ Len(layers) = Len(create_CNN)
    /\ Normalization # {}
    /\ tc_runs = 2
    /\ tc_epoch = 2
    /\ tc_log # {}

\* ------------------------------------------------------------------------
\* The graphical interface
\* ------------------------------------------------------------------------
\* C28 as stated: -CNN-CONTINUE-TRAIN- launches a run exactly when both data
\* folders exist and both hold files, and in every other case prints the
\* message that there is no data to continue the training.
C28_ContinueOnlyWithData ==
    last_event.event = "-CNN-CONTINUE-TRAIN-" =>
        /\ last_event.launched <=>
               /\ train_folder.exists /\ val_folder.exists
               /\ train_folder.listing # {} /\ val_folder.listing # {}
        /\ ~last_event.launched =>
               /\ last_event.printed = NoDataMessage
               /\ print_text = NoDataMessage

====
